---- MODULE Spec2Model ----
(***************************************************************************)
(* Trial-period bot (src/client.py): the SQLite store of linked and named  *)
(* trial records, the /enter and /leave commands, and the J+14 reminder    *)
(* sweep (trial_checker).  Every coroutine is cut at its awaits: one       *)
(* action is one stretch of code between two suspension points, so the     *)
(* interleavings of the model are those of the asyncio event loop.         *)
(***************************************************************************)
EXTENDS Integers, Sequences, FiniteSets, TLC

----------------------------------------------------------------------------
(* Bounds of the model *)

\* sub-second clock positions per second (the clock's resolution)
TicksPerSecond == 2
\* trial records in the store at one time (linked and named together),
\* counting those an /enter is about to insert
MaxRows == 2
\* the history counts the reminders of one record up to MaxCount
MaxCount == 2
\* at most MaxNotes notes records of one guild are in the store at a time
MaxNotes == 1

----------------------------------------------------------------------------
(* Program constants and the finite universe *)

\* timedelta(days=14)
TRIAL_DAYS == 14
SecondsPerDay == 24 * 60 * 60
TrialTicks == TRIAL_DAYS * SecondsPerDay * TicksPerSecond

Guilds == {1, 2}
Users == {1, 2}
\* channel ids a guild may configure
Channels == {1, 2}

NULL == [null |-> TRUE]
NoRow == [norow |-> TRUE]

\* the instants the clock shows: a start, the next sub-second position, and the
\* same two one trial length later
ClockValues == {0, 1, TrialTicks, TrialTicks + 1}

----------------------------------------------------------------------------
(* datetime.isoformat() and the TEXT comparison of SQLite *)

\* datetime.isoformat() of a UTC instant: "YYYY-MM-DDTHH:MM:SS[.ffffff]+00:00".
\* The date and time fields are fixed-width, so they compare as the number of
\* whole seconds; the fraction is printed only when it is not zero.
isoformat(t) ==
    [sec |-> t \div TicksPerSecond,
     hasFrac |-> (t % TicksPerSecond) # 0,
     frac |-> t % TicksPerSecond]

\* parse_iso: datetime.fromisoformat, then astimezone(utc)
parse_iso(s) == s.sec * TicksPerSecond + (IF s.hasFrac THEN s.frac ELSE 0)

\* a <= b as SQLite compares two TEXT values (memcmp): the first differing
\* character decides; after equal seconds "+" (0x2B) sorts before "." (0x2E)
TextLE(a, b) ==
    IF a.sec # b.sec THEN a.sec < b.sec
    ELSE IF a.hasFrac # b.hasFrac THEN ~a.hasFrac
    ELSE IF a.hasFrac THEN a.frac <= b.frac
    ELSE TRUE

----------------------------------------------------------------------------
(* Names *)

\* the display names users type, as sequences of characters
DisplayNames ==
    { <<"A", " ", " ", "b">>,
      <<" ", "a", " ", "B", " ">>,
      <<" ", " ">> }

IsSpace(c) == c = " "

\* str.lower() on one character
Lower(c) == CASE c = "A" -> "a" [] c = "B" -> "b" [] OTHER -> c

RECURSIVE lstrip(_)
lstrip(s) == IF s # <<>> /\ IsSpace(Head(s)) THEN lstrip(Tail(s)) ELSE s

RECURSIVE rstrip(_)
rstrip(s) ==
    IF s # <<>> /\ IsSpace(s[Len(s)]) THEN rstrip(SubSeq(s, 1, Len(s) - 1)) ELSE s

\* str.strip()
strip(s) == rstrip(lstrip(s))

\* " ".join(s.split()): runs of whitespace inside a stripped string become one space
RECURSIVE collapse(_)
collapse(s) ==
    IF s = <<>> THEN <<>>
    ELSE IF IsSpace(Head(s)) /\ Tail(s) # <<>> /\ IsSpace(Head(Tail(s)))
         THEN collapse(Tail(s))
         ELSE <<Head(s)>> \o collapse(Tail(s))

\* a key that keeps the case: .lower() left out
normalize_name_cased(name) == collapse(strip(name))

\* _normalize_name: " ".join(name.strip().split()).lower()
normalize_name(name) ==
    LET c == collapse(strip(name)) IN [i \in 1..Len(c) |-> Lower(c[i])]

NameKeys == {normalize_name(n) : n \in DisplayNames} \ {<<>>}

\* the values the column name_key (TEXT NOT NULL) can hold: the empty text too
StoredKeys == NameKeys \cup {<<>>}

----------------------------------------------------------------------------
(* State *)

VARIABLES
    now,               \* datetime.now(timezone.utc), in ticks
    world,             \* the bot's surroundings: bot.guilds, the members, the channels
    schema,            \* PRAGMA table_info(players): the columns of table players
    players,           \* table players: [Guilds \X Users -> row or NoRow]
    players_external,  \* table players_external: [Guilds \X StoredKeys -> row or NoRow]
    guild_settings,    \* table guild_settings: [Guilds -> channel id, 0 for none]
    player_notes,      \* table player_notes: [Guilds \X Users -> row or NoRow]
    player_notes_external, \* table player_notes_external: [Guilds \X NameKeys -> row or NoRow]
    inflight,          \* /enter invocations suspended between SELECT and INSERT
    resp,              \* the response the step just taken sent to a user, if any
    pc,                \* where trial_checker stands
    todo,              \* the guilds the running pass has still to visit
    due,               \* the fetched due rows the running pass has still to send
    sent,              \* history: the reminders sent for the record now under each key
    iter               \* history: what the pass did in the guild it is visiting

vars == <<now, world, schema, players, players_external, guild_settings, player_notes,
          player_notes_external, inflight, resp, pc, todo, due, sent, iter>>

store == <<players, players_external, guild_settings>>
notes == <<player_notes, player_notes_external>>
sweep == <<pc, todo, due, iter>>

\* The surroundings a run starts in: guilds is bot.guilds in the order the sweep
\* iterates it, members the guild members a command can mention, channels the
\* text channels a Lead can choose, clock the instants the clock shows.
Solo == [guilds |-> <<1>>, members |-> {1, 2}, channels |-> {1, 2}, clock |-> ClockValues]

Pairs ==
    { [guilds |-> gs, members |-> {1}, channels |-> {1}, clock |-> {0, TrialTicks}] :
        gs \in {<<1, 2>>, <<2, 1>>} }

Racing == [guilds |-> <<1>>, members |-> {1}, channels |-> {1, 2}, clock |-> ClockValues]

Desk == [guilds |-> <<1>>, members |-> {1}, channels |-> {1}, clock |-> {0, TrialTicks}]

bot_guilds == world.guilds

InGuilds == {bot_guilds[i] : i \in 1..Len(bot_guilds)}

\* command invocations that may be suspended at the same time
Cmds == {1, 2}
NoCmd == [nocmd |-> TRUE]
NoResp == [cmd |-> "none", out |-> "none"]
\* history of the running pass: the guild being visited, the records its two
\* fetches returned, the records told, how the visit ended, and the guilds of
\* this pass whose visit a failed send ended
NoIter == [g |-> 0, fetched |-> {}, told |-> {}, failed |-> "none", broke |-> {}]

\* the columns CREATE_TABLE_PLAYERS gives table players, and those of a table
\* created before the two notified columns were introduced
Columns ==
    {"guild_id", "user_id", "added_at_utc", "trial_end_utc", "notes",
     "notified_done", "notified_at_utc"}
LegacyColumns == Columns \ {"notified_done", "notified_at_utc"}

\* the store of a bot that has run before: the tables exist and are empty
InitIn(worlds) ==
    /\ now = 0
    /\ world \in worlds
    /\ schema = Columns
    /\ players = [k \in Guilds \X Users |-> NoRow]
    /\ players_external = [k \in Guilds \X StoredKeys |-> NoRow]
    /\ guild_settings = [g \in Guilds |-> 0]
    /\ player_notes = [k \in Guilds \X Users |-> NoRow]
    /\ player_notes_external = [k \in Guilds \X NameKeys |-> NoRow]
    /\ inflight = [c \in Cmds |-> NoCmd]
    /\ resp = NoResp
    /\ pc = "stopped"
    /\ todo = <<>>
    /\ due = <<>>
    /\ sent = [member |-> [k \in Guilds \X Users |-> 0],
               name |-> [k \in Guilds \X StoredKeys |-> 0]]
    /\ iter = NoIter

----------------------------------------------------------------------------
(* The store operations (DB Ops) *)

\* timedelta(hours=14) written for timedelta(days=14)
trial_end_of_hours(now_utc) == now_utc + TRIAL_DAYS * 60 * 60 * TicksPerSecond

\* trial_end = now_utc + timedelta(days=14)
trial_end_of(now_utc) == now_utc + TrialTicks

\* the row INSERT INTO players writes; notes, notified_done and notified_at_utc
\* take their column defaults
new_player_row(now_utc) ==
    [added_at_utc |-> isoformat(now_utc),
     trial_end_utc |-> isoformat(trial_end_of(now_utc)),
     notes |-> "",
     notified_done |-> 0,
     notified_at_utc |-> NULL]

\* the row INSERT INTO players_external writes: name.strip() and the key
new_external_row(name, now_utc) ==
    [name |-> strip(name),
     name_key |-> normalize_name(name),
     added_at_utc |-> isoformat(now_utc),
     trial_end_utc |-> isoformat(trial_end_of(now_utc)),
     notified_done |-> 0,
     notified_at_utc |-> NULL]

\* a WHERE clause that leaves out notified_done=0
is_due_whatever_flag(row, now_iso) == TextLE(row.trial_end_utc, now_iso)

\* WHERE notified_done=0 AND trial_end_utc <= ?
is_due(row, now_iso) ==
    /\ row.notified_done = 0
    /\ TextLE(row.trial_end_utc, now_iso)

\* fetch_due_trials: the users of the guild whose row the query selects
fetch_due_trials(g) ==
    {u \in Users : players[<<g, u>>] # NoRow /\ is_due(players[<<g, u>>], isoformat(now))}

\* a query for the named records with trial_end_utc < ? in place of <= ?
fetch_due_trials_external_strict(g) ==
    {k \in NameKeys :
        /\ players_external[<<g, k>>] # NoRow
        /\ players_external[<<g, k>>].notified_done = 0
        /\ ~TextLE(isoformat(now), players_external[<<g, k>>].trial_end_utc)}

\* fetch_due_trials_external: the name keys of the guild whose row the query selects
fetch_due_trials_external(g) ==
    {k \in NameKeys :
        players_external[<<g, k>>] # NoRow /\ is_due(players_external[<<g, k>>], isoformat(now))}

\* an UPDATE that flips the flag: SET notified_done = 1 - notified_done
notified_row_flipped(row) ==
    [row EXCEPT !.notified_done = 1 - @, !.notified_at_utc = isoformat(now)]

\* UPDATE ... SET notified_done=1, notified_at_utc=? on one row
notified_row(row) ==
    [row EXCEPT !.notified_done = 1, !.notified_at_utc = isoformat(now)]

\* a mark_notified whose WHERE has no guild in it: UPDATE players ... WHERE user_id=?
mark_notified_every_guild(g, user_id) ==
    [k \in Guilds \X Users |->
        IF k[2] = user_id /\ players[k] # NoRow THEN notified_row(players[k]) ELSE players[k]]

\* mark_notified: UPDATE players ... WHERE guild_id=? AND user_id=?
mark_notified(g, user_id) ==
    IF players[<<g, user_id>>] = NoRow THEN players
    ELSE [players EXCEPT ![<<g, user_id>>] = notified_row(@)]

\* mark_notified_external: UPDATE players_external ... WHERE guild_id=? AND name_key=?
mark_notified_external(g, name_key) ==
    IF name_key \notin NameKeys \/ players_external[<<g, name_key>>] = NoRow
    THEN players_external
    ELSE [players_external EXCEPT ![<<g, name_key>>] = notified_row(@)]

\* get_trial_channel_id: row[0] if row and row[0] else None (0 stands for None)
get_trial_channel_id(g) == guild_settings[g]

\* the result rows of a query without ORDER BY, in any order
Orders(S) ==
    {q \in [1..Cardinality(S) -> S] : \A i, j \in 1..Cardinality(S) : q[i] = q[j] => i = j}

Pending == {c \in Cmds : inflight[c] # NoCmd}

\* a new invocation takes the first free slot
FreeCmd(c) == inflight[c] = NoCmd /\ \A d \in Cmds : d < c => inflight[d] # NoCmd

count(n) == IF n < MaxCount THEN n + 1 ELSE n

\* the trial records in the store
Rows ==
    Cardinality({k \in Guilds \X Users : players[k] # NoRow})
    + Cardinality({k \in Guilds \X StoredKeys : players_external[k] # NoRow})

\* coroutines other than the sweep run only while the sweep is stopped, is
\* sleeping or is suspended at one of its awaits
AtAwait == pc # "next"

\* the clock moves on
Tick ==
    /\ AtAwait
    /\ \E t \in world.clock :
          /\ t > now
          /\ \A t2 \in world.clock : t2 > now => t <= t2
          /\ now' = t
    /\ resp' = NoResp
    /\ UNCHANGED <<world, schema, notes, store, inflight, sweep, sent>>

----------------------------------------------------------------------------
(* Commands *)

\* The error handler of the command tree.  The module registers two functions
\* under @bot.tree.error, both named on_app_command_error; the tree keeps the
\* one registered last.  That one answers a CheckFailure with the "reserved to
\* Leads" message and does nothing for any other error: the outcome "Raised"
\* is an invocation that ended with no message.  The function registered
\* first, which answered every error with "Une erreur est survenue", is
\* never called.
on_app_command_error(error) ==
    IF error = "CheckFailure" THEN "Denied" ELSE "Raised"

\* a command invoked by a user without the Lead role: lead_only fails the check
Denied(cmd) ==
    /\ AtAwait
    /\ resp' = [cmd |-> cmd, out |-> on_app_command_error("CheckFailure")]
    /\ UNCHANGED <<now, world, schema, notes, store, inflight, sweep, sent>>

\* an add that skips the existence check and replaces the row (INSERT OR REPLACE)
player_exists_unchecked(g, u) == FALSE

\* a SELECT whose WHERE clause leaves out user_id=?
player_exists_in_guild(g, u) == \E v \in Users : players[<<g, v>>] # NoRow

\* SELECT 1 FROM players WHERE guild_id=? AND user_id=?
player_exists(g, u) == players[<<g, u>>] # NoRow

\* SELECT 1 FROM players_external WHERE guild_id=? AND name_key=?
external_exists(g, norm) == players_external[<<g, norm>>] # NoRow

\* INSERT INTO players (guild_id, user_id, added_at_utc, trial_end_utc)
insert_player(g, u, now_utc) ==
    [players EXCEPT ![<<g, u>>] = new_player_row(now_utc)]

\* INSERT INTO players_external (guild_id, name, name_key, added_at_utc, trial_end_utc)
insert_external(g, name, now_utc) ==
    [players_external EXCEPT ![<<g, normalize_name(name)>>] = new_external_row(name, now_utc)]

member_resp(g, u, out) == [cmd |-> "enter", kind |-> "member", g |-> g, key |-> u, out |-> out]
name_resp(g, name, out) ==
    [cmd |-> "enter", kind |-> "name", g |-> g, key |-> normalize_name(name),
     name |-> strip(name), out |-> out]
\* the command raised: the exception leaves the callback for the tree's error handler
Raised(cmd) == [cmd |-> cmd, out |-> on_app_command_error("Exception")]

\* /enter member, run from call to response with no other coroutine scheduled
\* in between: add_player_to_db's SELECT, then its INSERT
enter_member(g, u, fault) ==
    /\ AtAwait
    /\ g \in InGuilds /\ u \in world.members
    /\ IF fault
       THEN /\ resp' = Raised("enter")
            /\ UNCHANGED <<players, sent>>
       ELSE IF player_exists(g, u)
       THEN /\ resp' = member_resp(g, u, "AlreadyExists")
            /\ UNCHANGED <<players, sent>>
       ELSE /\ Rows < MaxRows
            /\ players' = insert_player(g, u, now)
            /\ sent' = [sent EXCEPT !.member[<<g, u>>] = 0]
            /\ resp' = member_resp(g, u, "Created")
    /\ UNCHANGED <<now, world, schema, notes, players_external, guild_settings, inflight, sweep>>

\* /enter name, run with no other coroutine scheduled in between: enter_unified
\* and add_player_by_name
enter_name(g, name, fault) ==
    /\ AtAwait
    /\ g \in InGuilds
    /\ LET norm == normalize_name(name)
       IN IF strip(name) = <<>>
          THEN /\ resp' = [cmd |-> "enter", out |-> "Usage"]
               /\ UNCHANGED <<players_external, sent>>
          ELSE IF norm = <<>>
          THEN /\ resp' = name_resp(g, name, "Invalid")
               /\ UNCHANGED <<players_external, sent>>
          ELSE IF fault
          THEN /\ resp' = Raised("enter")
               /\ UNCHANGED <<players_external, sent>>
          ELSE IF external_exists(g, norm)
          THEN /\ resp' = name_resp(g, name, "AlreadyExists")
               /\ UNCHANGED <<players_external, sent>>
          ELSE /\ Rows < MaxRows
               /\ players_external' = insert_external(g, name, now)
               /\ sent' = [sent EXCEPT !.name[<<g, norm>>] = 0]
               /\ resp' = name_resp(g, name, "Created")
    /\ UNCHANGED <<now, world, schema, notes, players, guild_settings, inflight, sweep>>

\* /enter member where coroutines race: add_player_to_db up to its SELECT.  A
\* row found answers "already in the list"; otherwise the coroutine is suspended
\* before its INSERT, holding the now_utc it read.
enter_member_select(c, g, u, fault) ==
    /\ AtAwait
    /\ g \in InGuilds /\ u \in world.members
    /\ FreeCmd(c)
    /\ IF fault
       THEN /\ resp' = Raised("enter")
            /\ UNCHANGED inflight
       ELSE IF player_exists(g, u)
       THEN /\ resp' = member_resp(g, u, "AlreadyExists")
            /\ UNCHANGED inflight
       ELSE /\ Rows + Cardinality(Pending) < MaxRows
            /\ inflight' = [inflight EXCEPT ![c] =
                              [kind |-> "member", g |-> g, key |-> u, now_utc |-> now]]
            /\ resp' = NoResp
    /\ UNCHANGED <<now, world, schema, notes, store, sweep, sent>>

\* the INSERT met a row under its primary key: sqlite3.IntegrityError leaves
\* the add function and the callback for the tree's error handler
RaisedIntegrity(cmd) ==
    [cmd |-> cmd, out |-> on_app_command_error("IntegrityError"), error |-> "IntegrityError"]

\* add_player_to_db from its INSERT on: the primary key rejects a second row
\* with an exception
enter_member_insert(c, fault) ==
    /\ AtAwait
    /\ inflight[c] # NoCmd
    /\ inflight[c].kind = "member"
    /\ LET cmd == inflight[c]
       IN IF fault
          THEN /\ resp' = Raised("enter")
               /\ UNCHANGED <<players, sent>>
          ELSE IF player_exists(cmd.g, cmd.key)
          THEN /\ resp' = RaisedIntegrity("enter")
               /\ UNCHANGED <<players, sent>>
          ELSE /\ players' = insert_player(cmd.g, cmd.key, cmd.now_utc)
               /\ sent' = [sent EXCEPT !.member[<<cmd.g, cmd.key>>] = 0]
               /\ resp' = member_resp(cmd.g, cmd.key, "Created")
    /\ inflight' = [inflight EXCEPT ![c] = NoCmd]
    /\ UNCHANGED <<now, world, schema, notes, players_external, guild_settings, sweep>>

\* /enter name where coroutines race: up to the SELECT of add_player_by_name
enter_name_select(c, g, name, fault) ==
    /\ AtAwait
    /\ g \in InGuilds
    /\ FreeCmd(c)
    /\ LET norm == normalize_name(name)
       IN IF strip(name) = <<>>
          THEN /\ resp' = [cmd |-> "enter", out |-> "Usage"]
               /\ UNCHANGED inflight
          ELSE IF norm = <<>>
          THEN /\ resp' = name_resp(g, name, "Invalid")
               /\ UNCHANGED inflight
          ELSE IF fault
          THEN /\ resp' = Raised("enter")
               /\ UNCHANGED inflight
          ELSE IF external_exists(g, norm)
          THEN /\ resp' = name_resp(g, name, "AlreadyExists")
               /\ UNCHANGED inflight
          ELSE /\ Rows + Cardinality(Pending) < MaxRows
               /\ inflight' = [inflight EXCEPT ![c] =
                                 [kind |-> "name", g |-> g, key |-> norm, name |-> name,
                                  now_utc |-> now]]
               /\ resp' = NoResp
    /\ UNCHANGED <<now, world, schema, notes, store, sweep, sent>>

\* add_player_by_name from its INSERT on
enter_name_insert(c, fault) ==
    /\ AtAwait
    /\ inflight[c] # NoCmd
    /\ inflight[c].kind = "name"
    /\ LET cmd == inflight[c]
       IN IF fault
          THEN /\ resp' = Raised("enter")
               /\ UNCHANGED <<players_external, sent>>
          ELSE IF external_exists(cmd.g, cmd.key)
          THEN /\ resp' = RaisedIntegrity("enter")
               /\ UNCHANGED <<players_external, sent>>
          ELSE /\ players_external' = insert_external(cmd.g, cmd.name, cmd.now_utc)
               /\ sent' = [sent EXCEPT !.name[<<cmd.g, cmd.key>>] = 0]
               /\ resp' = name_resp(cmd.g, cmd.name, "Created")
    /\ inflight' = [inflight EXCEPT ![c] = NoCmd]
    /\ UNCHANGED <<now, world, schema, notes, players, guild_settings, sweep>>

\* a /leave that also deletes the member's notes (DELETE FROM player_notes)
leave_member_cascading(g, u, fault) ==
    /\ AtAwait
    /\ g \in InGuilds /\ u \in world.members
    /\ IF fault
       THEN /\ resp' = Raised("leave")
            /\ UNCHANGED <<players, sent, player_notes>>
       ELSE /\ players' = [players EXCEPT ![<<g, u>>] = NoRow]
            /\ player_notes' = [player_notes EXCEPT ![<<g, u>>] = NoRow]
            /\ sent' = [sent EXCEPT !.member[<<g, u>>] = 0]
            /\ resp' = [cmd |-> "leave", g |-> g, key |-> u,
                        out |-> IF players[<<g, u>>] # NoRow THEN "Removed" ELSE "NotInList"]
    /\ UNCHANGED <<now, world, schema, player_notes_external, players_external, guild_settings,
                   inflight, sweep>>

\* /leave member: remove_player_from_db, DELETE and total_changes > 0
leave_member(g, u, fault) ==
    /\ AtAwait
    /\ g \in InGuilds /\ u \in world.members
    /\ IF fault
       THEN /\ resp' = Raised("leave")
            /\ UNCHANGED <<players, sent>>
       ELSE /\ players' = [players EXCEPT ![<<g, u>>] = NoRow]
            /\ sent' = [sent EXCEPT !.member[<<g, u>>] = 0]
            /\ resp' = [cmd |-> "leave", g |-> g, key |-> u,
                        out |-> IF players[<<g, u>>] # NoRow THEN "Removed" ELSE "NotInList"]
    /\ UNCHANGED <<now, world, schema, notes, players_external, guild_settings, inflight, sweep>>

\* a /settrialchannel whose statement has no guild in it: UPDATE guild_settings
\* SET trial_channel_id=? on every row
set_trial_channel_cmd_everywhere(g, ch, fault) ==
    /\ AtAwait
    /\ g \in InGuilds /\ ch \in world.channels
    /\ IF fault
       THEN /\ resp' = Raised("settrialchannel")
            /\ UNCHANGED guild_settings
       ELSE /\ guild_settings' = [h \in Guilds |-> ch]
            /\ resp' = [cmd |-> "settrialchannel", g |-> g, out |-> "Set", channel_id |-> ch]
    /\ UNCHANGED <<now, world, schema, notes, players, players_external, inflight, sweep, sent>>

\* /settrialchannel: set_trial_channel, INSERT ... ON CONFLICT DO UPDATE
set_trial_channel_cmd(g, ch, fault) ==
    /\ AtAwait
    /\ g \in InGuilds /\ ch \in world.channels
    /\ IF fault
       THEN /\ resp' = Raised("settrialchannel")
            /\ UNCHANGED guild_settings
       ELSE /\ guild_settings' = [guild_settings EXCEPT ![g] = ch]
            /\ resp' = [cmd |-> "settrialchannel", g |-> g, out |-> "Set", channel_id |-> ch]
    /\ UNCHANGED <<now, world, schema, notes, players, players_external, inflight, sweep, sent>>

----------------------------------------------------------------------------
(* Notes *)

\* what a Lead types into the five required inputs and the two optional inputs,
\* after .value.strip()
NoteTexts == {"x"}
OptionalTexts == {"", "y"}
Forms ==
    [characters_level : NoteTexts, prev_guild_alliance : NoteTexts, optimized : NoteTexts,
     content_preference : NoteTexts, objectives : NoteTexts]

NotesRows(g) ==
    Cardinality({u \in Users : player_notes[<<g, u>>] # NoRow})
    + Cardinality({k \in NameKeys : player_notes_external[<<g, k>>] # NoRow})

\* the values of INSERT INTO player_notes ... ON CONFLICT DO UPDATE SET: every
\* listed column takes the excluded (new) value
notes_row(form, age, contribution) ==
    [characters_level |-> form.characters_level,
     prev_guild_alliance |-> form.prev_guild_alliance,
     optimized |-> form.optimized,
     content_preference |-> form.content_preference,
     objectives |-> form.objectives,
     age |-> age,
     contribution |-> contribution,
     updated_at_utc |-> isoformat(now)]

upsert_notes(g, user_id, form, age, contribution) ==
    [player_notes EXCEPT ![<<g, user_id>>] = notes_row(form, age, contribution)]

upsert_notes_external(g, name_key, name_display, form, age, contribution) ==
    [player_notes_external EXCEPT ![<<g, name_key>>] =
        [name |-> name_display] @@ notes_row(form, age, contribution)]

\* an UPDATE that also resets a required column: SET objectives='', age=?, ...
optional_row_clobbering(row, age, contribution) ==
    [row EXCEPT !.objectives = "", !.age = age, !.contribution = contribution,
                !.updated_at_utc = isoformat(now)]

\* UPDATE player_notes SET age=?, contribution=?, updated_at_utc=? WHERE ...
optional_row(row, age, contribution) ==
    [row EXCEPT !.age = age, !.contribution = contribution, !.updated_at_utc = isoformat(now)]

update_optional_notes(g, user_id, age, contribution) ==
    IF player_notes[<<g, user_id>>] = NoRow THEN player_notes
    ELSE [player_notes EXCEPT ![<<g, user_id>>] = optional_row(@, age, contribution)]

update_optional_notes_external(g, name_key, age, contribution) ==
    IF player_notes_external[<<g, name_key>>] = NoRow THEN player_notes_external
    ELSE [player_notes_external EXCEPT ![<<g, name_key>>] = optional_row(@, age, contribution)]

\* get_notes: SELECT the note columns FROM player_notes WHERE guild_id=? AND user_id=?
get_notes(g, user_id) == player_notes[<<g, user_id>>]

\* get_notes_external: SELECT name and the note columns WHERE guild_id=? AND name_key=?
get_notes_external(g, name_key) == player_notes_external[<<g, name_key>>]

\* DELETE FROM player_notes_external WHERE guild_id=? AND name_key=?
delete_notes_external(g, name_key) ==
    [player_notes_external EXCEPT ![<<g, name_key>>] = NoRow]

\* PlayerNotesModal.on_submit: upsert_notes with the optional fields empty
PlayerNotesModal_on_submit(g, u, form, fault) ==
    /\ AtAwait
    /\ g \in InGuilds /\ u \in world.members
    /\ IF fault
       THEN /\ resp' = Raised("note")
            /\ UNCHANGED player_notes
       ELSE /\ player_notes[<<g, u>>] # NoRow \/ NotesRows(g) < MaxNotes
            /\ player_notes' = upsert_notes(g, u, form, "", "")
            /\ resp' = [cmd |-> "note", out |-> "Saved"]
    /\ UNCHANGED <<now, world, schema, store, player_notes_external, inflight, sweep, sent>>

\* OptionalNotesModal.on_submit: update_optional_notes
OptionalNotesModal_on_submit(g, u, age, contribution, fault) ==
    /\ AtAwait
    /\ g \in InGuilds /\ u \in world.members
    /\ IF fault
       THEN /\ resp' = Raised("note")
            /\ UNCHANGED player_notes
       ELSE /\ player_notes' = update_optional_notes(g, u, age, contribution)
            /\ resp' = [cmd |-> "note", out |-> "OptionalSaved"]
    /\ UNCHANGED <<now, world, schema, store, player_notes_external, inflight, sweep, sent>>

\* a submit that skips the SELECT on players_external and upserts at once
PlayerNotesModalExternal_on_submit_unchecked(g, name, form, fault) ==
    /\ AtAwait
    /\ g \in InGuilds
    /\ strip(name) # <<>>
    /\ LET name_display == strip(name)
           name_key == normalize_name(name_display)
       IN IF fault
          THEN /\ resp' = Raised("note")
               /\ UNCHANGED player_notes_external
          ELSE /\ player_notes_external[<<g, name_key>>] # NoRow \/ NotesRows(g) < MaxNotes
               /\ player_notes_external' =
                     upsert_notes_external(g, name_key, name_display, form, "", "")
               /\ resp' = [cmd |-> "note", out |-> "Saved"]
    /\ UNCHANGED <<now, world, schema, store, player_notes, inflight, sweep, sent>>

\* PlayerNotesModalExternal.on_submit: the name must be in players_external,
\* then upsert_notes_external with the optional fields empty
PlayerNotesModalExternal_on_submit(g, name, form, fault) ==
    /\ AtAwait
    /\ g \in InGuilds
    /\ strip(name) # <<>>
    /\ LET name_display == strip(name)
           name_key == normalize_name(name_display)
       IN IF fault
          THEN /\ resp' = Raised("note")
               /\ UNCHANGED player_notes_external
          ELSE IF ~external_exists(g, name_key)
          THEN /\ resp' = [cmd |-> "note", out |-> "NotInList"]
               /\ UNCHANGED player_notes_external
          ELSE /\ player_notes_external[<<g, name_key>>] # NoRow \/ NotesRows(g) < MaxNotes
               /\ player_notes_external' =
                     upsert_notes_external(g, name_key, name_display, form, "", "")
               /\ resp' = [cmd |-> "note", out |-> "Saved"]
    /\ UNCHANGED <<now, world, schema, store, player_notes, inflight, sweep, sent>>

\* OptionalNotesModalExternal.on_submit: update_optional_notes_external
OptionalNotesModalExternal_on_submit(g, name, age, contribution, fault) ==
    /\ AtAwait
    /\ g \in InGuilds
    /\ strip(name) # <<>>
    /\ IF fault
       THEN /\ resp' = Raised("note")
            /\ UNCHANGED player_notes_external
       ELSE /\ player_notes_external' =
                  update_optional_notes_external(g, normalize_name(strip(name)), age, contribution)
            /\ resp' = [cmd |-> "note", out |-> "OptionalSaved"]
    /\ UNCHANGED <<now, world, schema, store, player_notes, inflight, sweep, sent>>

\* /delnotes member: DELETE FROM player_notes and total_changes > 0
delnotes_member(g, u, fault) ==
    /\ AtAwait
    /\ g \in InGuilds /\ u \in world.members
    /\ IF fault
       THEN /\ resp' = Raised("delnotes")
            /\ UNCHANGED player_notes
       ELSE /\ player_notes' = [player_notes EXCEPT ![<<g, u>>] = NoRow]
            /\ resp' = [cmd |-> "delnotes",
                        out |-> IF player_notes[<<g, u>>] # NoRow THEN "Deleted" ELSE "NoNotes"]
    /\ UNCHANGED <<now, world, schema, store, player_notes_external, inflight, sweep, sent>>

\* /delnotes name: delete_notes_external under the normalized name
delnotes_name(g, name, fault) ==
    /\ AtAwait
    /\ g \in InGuilds
    /\ LET name_key == normalize_name(name)
       IN IF strip(name) = <<>>
          THEN /\ resp' = [cmd |-> "delnotes", out |-> "Usage"]
               /\ UNCHANGED player_notes_external
          ELSE IF fault
          THEN /\ resp' = Raised("delnotes")
               /\ UNCHANGED player_notes_external
          ELSE /\ player_notes_external' = delete_notes_external(g, name_key)
               /\ resp' = [cmd |-> "delnotes",
                           out |-> IF player_notes_external[<<g, name_key>>] # NoRow
                                   THEN "Deleted" ELSE "NoNotes"]
    /\ UNCHANGED <<now, world, schema, store, player_notes, inflight, sweep, sent>>

----------------------------------------------------------------------------
(* The sweep: on_ready starts trial_checker, a tasks.loop *)

\* ALTER TABLE players ADD COLUMN col ... DEFAULT value: every row of the
\* table takes the default in the new column
add_column(table, col, value) ==
    [k \in DOMAIN table |-> IF table[k] = NoRow THEN NoRow ELSE (col :> value) @@ table[k]]

\* an init_db that drops and adds the two columns whether or not they exist
init_db_recreating(cols, table) ==
    [schema |-> (IF cols = {} THEN Columns ELSE cols) \cup {"notified_done", "notified_at_utc"},
     players |-> [k \in DOMAIN table |->
                    IF table[k] = NoRow THEN NoRow
                    ELSE [c \in DOMAIN table[k] \cup {"notified_done", "notified_at_utc"} |->
                            IF c = "notified_done" THEN 0
                            ELSE IF c = "notified_at_utc" THEN NULL
                            ELSE table[k][c]]]]

\* init_db on a store whose table players has the columns cols (none: there is
\* no table) and the rows table: CREATE TABLE IF NOT EXISTS, PRAGMA table_info,
\* and one ALTER TABLE for each of the two columns that is missing
init_db(cols, table) ==
    LET created == IF cols = {} THEN Columns ELSE cols
        t1 == IF "notified_done" \notin created
              THEN add_column(table, "notified_done", 0) ELSE table
        t2 == IF "notified_at_utc" \notin created
              THEN add_column(t1, "notified_at_utc", NULL) ELSE t1
    IN [schema |-> created \cup {"notified_done", "notified_at_utc"}, players |-> t2]

\* an on_ready that starts the loop afresh whether or not it is running
on_ready_restarts ==
    /\ AtAwait
    /\ schema' = init_db(schema, players).schema
    /\ players' = init_db(schema, players).players
    /\ pc' = "idle"
    /\ todo' = <<>>
    /\ due' = <<>>
    /\ iter' = NoIter
    /\ resp' = NoResp
    /\ UNCHANGED <<now, world, notes, players_external, guild_settings, inflight, sent>>

\* on_ready: init_db, then trial_checker.start() unless the loop is running.
\* A loop that an exception ended is not running and is started again.
on_ready ==
    /\ AtAwait
    /\ schema' = init_db(schema, players).schema
    /\ players' = init_db(schema, players).players
    /\ IF pc = "stopped"
       THEN /\ pc' = "idle"
            /\ UNCHANGED <<todo, due, iter>>
       ELSE UNCHANGED sweep
    /\ resp' = NoResp
    /\ UNCHANGED <<now, world, notes, players_external, guild_settings, inflight, sent>>

\* a visit without "if not channel_id: continue"
visit_unset_goes_on(g, fault, is_text, perms_ok) ==
    IF fault
    THEN /\ pc' = "stopped"
         /\ iter' = NoIter
    ELSE IF ~is_text \/ ~perms_ok
    THEN /\ pc' = "next"
         /\ iter' = [NoIter EXCEPT !.g = g, !.failed = "skip", !.broke = iter.broke]
    ELSE /\ pc' = "fetch"
         /\ iter' = [NoIter EXCEPT !.g = g, !.broke = iter.broke]

\* lines 1092-1100 for guild g: the channel lookup and the three "continue".
\* The lookup is outside the try: its exception ends the loop.  Whether the id
\* resolves to a text channel and whether the bot may send there is the
\* platform's answer.
visit(g, fault, is_text, perms_ok) ==
    LET channel_id == get_trial_channel_id(g)
    IN IF fault
       THEN /\ pc' = "stopped"
            /\ iter' = NoIter
       ELSE IF channel_id = 0 \/ ~is_text \/ ~perms_ok
       THEN /\ pc' = "next"
            /\ iter' = [NoIter EXCEPT !.g = g, !.failed = "skip", !.broke = iter.broke]
       ELSE /\ pc' = "fetch"
            /\ iter' = [NoIter EXCEPT !.g = g, !.broke = iter.broke]

\* the loop's timer fires: a pass starts over bot.guilds with its first lookup
sweep_start(fault, is_text, perms_ok) ==
    /\ pc = "idle"
    /\ todo' = IF fault THEN <<>> ELSE bot_guilds
    /\ due' = <<>>
    /\ visit(Head(bot_guilds), fault, is_text, perms_ok)
    /\ resp' = NoResp
    /\ UNCHANGED <<now, world, schema, notes, store, inflight, sent>>

\* a try/except around the whole for loop: a failed send ends the pass
sweep_next_ends_pass(fault, is_text, perms_ok) ==
    /\ pc = "next"
    /\ due' = <<>>
    /\ IF Tail(todo) = <<>> \/ iter.failed = "send"
       THEN /\ pc' = "idle"
            /\ iter' = NoIter
            /\ todo' = <<>>
       ELSE /\ visit(Head(Tail(todo)), fault, is_text, perms_ok)
            /\ todo' = IF fault THEN <<>> ELSE Tail(todo)
    /\ resp' = NoResp
    /\ UNCHANGED <<now, world, schema, notes, store, inflight, sent>>

\* the for loop moves to the next guild and its lookup, or the pass ends and
\* the loop sleeps until its next tick
sweep_next(fault, is_text, perms_ok) ==
    /\ pc = "next"
    /\ due' = <<>>
    /\ IF Tail(todo) = <<>>
       THEN /\ pc' = "idle"
            /\ iter' = NoIter
            /\ todo' = <<>>
       ELSE /\ visit(Head(Tail(todo)), fault, is_text, perms_ok)
            /\ todo' = IF fault THEN <<>> ELSE Tail(todo)
    /\ resp' = NoResp
    /\ UNCHANGED <<now, world, schema, notes, store, inflight, sent>>

\* the row of one user as fetch_due_trials returns it
due_row(g, u) ==
    [user_id |-> u,
     added_at_utc |-> players[<<g, u>>].added_at_utc,
     trial_end_utc |-> players[<<g, u>>].trial_end_utc]

\* the row of one name key as fetch_due_trials_external returns it
due_row_ext(g, k) ==
    [name |-> players_external[<<g, k>>].name,
     added_at_utc |-> players_external[<<g, k>>].added_at_utc,
     trial_end_utc |-> players_external[<<g, k>>].trial_end_utc]

\* history: the record a fetched row stands for
item(kind, key, row) == [kind |-> kind, key |-> key, added_at_utc |-> row.added_at_utc]

\* history: one more reminder for the record under the key, when the row sent is
\* that record's (the record may have been removed or replaced since the fetch)
told_member(g, row) ==
    IF players[<<g, row.user_id>>] # NoRow
       /\ players[<<g, row.user_id>>].added_at_utc = row.added_at_utc
    THEN [sent EXCEPT !.member[<<g, row.user_id>>] = count(@)]
    ELSE sent

told_name(g, row) ==
    LET k == normalize_name(row.name)
    IN IF players_external[<<g, k>>] # NoRow
          /\ players_external[<<g, k>>].added_at_utc = row.added_at_utc
       THEN [sent EXCEPT !.name[<<g, k>>] = count(@)]
       ELSE sent

\* line 1104: due_rows = await fetch_due_trials(guild.id)
sweep_fetch(fault) ==
    /\ pc = "fetch"
    /\ LET g == Head(todo)
       IN IF fault
          THEN /\ pc' = "next"
               /\ iter' = [iter EXCEPT !.failed = "store"]
               /\ UNCHANGED due
          ELSE \E order \in Orders(fetch_due_trials(g)) :
                 /\ due' = [i \in 1..Len(order) |-> due_row(g, order[i])]
                 /\ iter' = [iter EXCEPT !.fetched =
                               @ \cup {item("member", u, due_row(g, u)) :
                                       u \in fetch_due_trials(g)}]
                 /\ pc' = IF order = <<>> THEN "fetch_ext" ELSE "send"
    /\ resp' = NoResp
    /\ UNCHANGED <<now, world, schema, notes, store, inflight, todo, sent>>

\* mark_notified called before channel.send instead of after it
sweep_send_marked_first(ok) ==
    /\ pc = "send"
    /\ LET row == Head(due)
       IN /\ players' = mark_notified(Head(todo), row.user_id)
          /\ IF ok
             THEN /\ sent' = told_member(Head(todo), row)
                  /\ iter' = [iter EXCEPT !.told = @ \cup {item("member", row.user_id, row)}]
                  /\ pc' = "mark"
             ELSE /\ pc' = "next"
                  /\ iter' = [iter EXCEPT !.failed = "send", !.broke = @ \cup {iter.g}]
                  /\ UNCHANGED sent
    /\ resp' = NoResp
    /\ UNCHANGED <<now, world, schema, notes, players_external, guild_settings, inflight, todo, due>>

\* lines 1107-1113: await channel.send(...) for the first row left
sweep_send(ok) ==
    /\ pc = "send"
    /\ LET row == Head(due)
       IN IF ok
          THEN /\ sent' = told_member(Head(todo), row)
               /\ iter' = [iter EXCEPT !.told = @ \cup {item("member", row.user_id, row)}]
               /\ pc' = "mark"
          ELSE /\ pc' = "next"
               /\ iter' = [iter EXCEPT !.failed = "send", !.broke = @ \cup {iter.g}]
               /\ UNCHANGED sent
    /\ resp' = NoResp
    /\ UNCHANGED <<now, world, schema, notes, store, inflight, todo, due>>

\* a mark that writes the row back when it is gone: INSERT OR REPLACE INTO
\* players in place of the UPDATE
sweep_mark_upserting(fault) ==
    /\ pc = "mark"
    /\ LET g == Head(todo)
           row == Head(due)
       IN IF fault
          THEN /\ pc' = "next"
               /\ iter' = [iter EXCEPT !.failed = "store"]
               /\ UNCHANGED <<players, due>>
          ELSE /\ players' =
                    IF players[<<g, row.user_id>>] = NoRow
                    THEN [players EXCEPT ![<<g, row.user_id>>] =
                            [new_player_row(now) EXCEPT
                                !.added_at_utc = row.added_at_utc,
                                !.trial_end_utc = row.trial_end_utc,
                                !.notified_done = 1,
                                !.notified_at_utc = isoformat(now)]]
                    ELSE mark_notified(g, row.user_id)
               /\ due' = Tail(due)
               /\ pc' = IF Tail(due) = <<>> THEN "fetch_ext" ELSE "send"
               /\ UNCHANGED iter
    /\ resp' = NoResp
    /\ UNCHANGED <<now, world, schema, notes, players_external, guild_settings, inflight, todo, sent>>

\* line 1114: await mark_notified(guild.id, user_id)
sweep_mark(fault) ==
    /\ pc = "mark"
    /\ LET g == Head(todo)
           row == Head(due)
       IN IF fault
          THEN /\ pc' = "next"
               /\ iter' = [iter EXCEPT !.failed = "store"]
               /\ UNCHANGED <<players, due>>
          ELSE /\ players' = mark_notified(g, row.user_id)
               /\ due' = Tail(due)
               /\ pc' = IF Tail(due) = <<>> THEN "fetch_ext" ELSE "send"
               /\ UNCHANGED iter
    /\ resp' = NoResp
    /\ UNCHANGED <<now, world, schema, notes, players_external, guild_settings, inflight, todo, sent>>

\* line 1117: due_ext = await fetch_due_trials_external(guild.id)
sweep_fetch_ext(fault) ==
    /\ pc = "fetch_ext"
    /\ LET g == Head(todo)
       IN IF fault
          THEN /\ pc' = "next"
               /\ iter' = [iter EXCEPT !.failed = "store"]
               /\ UNCHANGED due
          ELSE \E order \in Orders(fetch_due_trials_external(g)) :
                 /\ due' = [i \in 1..Len(order) |-> due_row_ext(g, order[i])]
                 /\ iter' = [iter EXCEPT !.fetched =
                               @ \cup {item("name", k, due_row_ext(g, k)) :
                                       k \in fetch_due_trials_external(g)}]
                 /\ pc' = IF order = <<>> THEN "next" ELSE "send_ext"
    /\ resp' = NoResp
    /\ UNCHANGED <<now, world, schema, notes, store, inflight, todo, sent>>

\* lines 1120-1124: await channel.send(...) for the first named row left
sweep_send_ext(ok) ==
    /\ pc = "send_ext"
    /\ LET row == Head(due)
       IN IF ok
          THEN /\ sent' = told_name(Head(todo), row)
               /\ iter' = [iter EXCEPT !.told =
                             @ \cup {item("name", normalize_name(row.name), row)}]
               /\ pc' = "mark_ext"
          ELSE /\ pc' = "next"
               /\ iter' = [iter EXCEPT !.failed = "send", !.broke = @ \cup {iter.g}]
               /\ UNCHANGED sent
    /\ resp' = NoResp
    /\ UNCHANGED <<now, world, schema, notes, store, inflight, todo, due>>

\* a mark keyed by the name as it is displayed: mark_notified_external(guild.id, name)
sweep_mark_ext_by_name(fault) ==
    /\ pc = "mark_ext"
    /\ LET g == Head(todo)
           row == Head(due)
       IN IF fault
          THEN /\ pc' = "next"
               /\ iter' = [iter EXCEPT !.failed = "store"]
               /\ UNCHANGED <<players_external, due>>
          ELSE /\ players_external' = mark_notified_external(g, row.name)
               /\ due' = Tail(due)
               /\ pc' = IF Tail(due) = <<>> THEN "next" ELSE "send_ext"
               /\ UNCHANGED iter
    /\ resp' = NoResp
    /\ UNCHANGED <<now, world, schema, notes, players, guild_settings, inflight, todo, sent>>

\* line 1126: await mark_notified_external(guild.id, _normalize_name(name))
sweep_mark_ext(fault) ==
    /\ pc = "mark_ext"
    /\ LET g == Head(todo)
           row == Head(due)
       IN IF fault
          THEN /\ pc' = "next"
               /\ iter' = [iter EXCEPT !.failed = "store"]
               /\ UNCHANGED <<players_external, due>>
          ELSE /\ players_external' = mark_notified_external(g, normalize_name(row.name))
               /\ due' = Tail(due)
               /\ pc' = IF Tail(due) = <<>> THEN "next" ELSE "send_ext"
               /\ UNCHANGED iter
    /\ resp' = NoResp
    /\ UNCHANGED <<now, world, schema, notes, players, guild_settings, inflight, todo, sent>>

----------------------------------------------------------------------------

\* the platform's events other than /enter: the clock, the other commands,
\* on_ready and the steps of the sweep
Others ==
    \/ Tick
    \/ \E cmd \in {"enter", "leave", "settrialchannel"} : Denied(cmd)
    \/ \E g \in Guilds, u \in Users, fault \in BOOLEAN : leave_member(g, u, fault)
    \/ \E g \in Guilds, ch \in Channels, fault \in BOOLEAN : set_trial_channel_cmd(g, ch, fault)
    \/ on_ready
    \/ \E fault, is_text, perms_ok \in BOOLEAN : sweep_start(fault, is_text, perms_ok)
    \/ \E fault \in BOOLEAN : sweep_fetch(fault)
    \/ \E ok \in BOOLEAN : sweep_send(ok)
    \/ \E fault \in BOOLEAN : sweep_mark(fault)
    \/ \E fault \in BOOLEAN : sweep_fetch_ext(fault)
    \/ \E ok \in BOOLEAN : sweep_send_ext(ok)
    \/ \E fault \in BOOLEAN : sweep_mark_ext(fault)
    \/ \E fault, is_text, perms_ok \in BOOLEAN : sweep_next(fault, is_text, perms_ok)

\* every /enter runs from its call to its response before anything else does
Next ==
    \/ \E g \in Guilds, u \in Users, fault \in BOOLEAN : enter_member(g, u, fault)
    \/ \E g \in Guilds, name \in DisplayNames, fault \in BOOLEAN : enter_name(g, name, fault)
    \/ Others

\* an /enter is suspended between its SELECT and its INSERT while others run
NextRacing ==
    \/ \E c \in Cmds, g \in Guilds, u \in Users, fault \in BOOLEAN :
          enter_member_select(c, g, u, fault)
    \/ \E c \in Cmds, fault \in BOOLEAN : enter_member_insert(c, fault)
    \/ \E c \in Cmds, g \in Guilds, name \in DisplayNames, fault \in BOOLEAN :
          enter_name_select(c, g, name, fault)
    \/ \E c \in Cmds, fault \in BOOLEAN : enter_name_insert(c, fault)
    \/ Others

\* the notes forms and /delnotes
NextDesk ==
    \/ Next
    \/ \E g \in Guilds, u \in Users, form \in Forms, fault \in BOOLEAN :
          PlayerNotesModal_on_submit(g, u, form, fault)
    \/ \E g \in Guilds, u \in Users, age, contribution \in OptionalTexts, fault \in BOOLEAN :
          OptionalNotesModal_on_submit(g, u, age, contribution, fault)
    \/ \E g \in Guilds, name \in DisplayNames, form \in Forms, fault \in BOOLEAN :
          PlayerNotesModalExternal_on_submit(g, name, form, fault)
    \/ \E g \in Guilds, name \in DisplayNames, age, contribution \in OptionalTexts,
          fault \in BOOLEAN :
          OptionalNotesModalExternal_on_submit(g, name, age, contribution, fault)
    \/ \E g \in Guilds, u \in Users, fault \in BOOLEAN : delnotes_member(g, u, fault)
    \/ \E g \in Guilds, name \in DisplayNames, fault \in BOOLEAN : delnotes_name(g, name, fault)

Init == InitIn({Solo})
InitDesk == InitIn({Desk})
InitPair == InitIn(Pairs)
InitRacing == InitIn({Racing})

\* one guild, two members and a named player
Spec == Init /\ [][Next]_vars

\* two guilds, iterated in either order
SpecPair == InitPair /\ [][Next]_vars

\* one guild, one member and a named player, with racing /enter commands
SpecRacing == InitRacing /\ [][NextRacing]_vars

\* one guild, one member and a named player, with the notes forms
SpecDesk == InitDesk /\ [][NextDesk]_vars

----------------------------------------------------------------------------
(* The store functions called one by one *)

\* two guilds with one member and two channels; the sweep is not started, so
\* the only writers of the store are the calls below
Ledger ==
    [guilds |-> <<1, 2>>, members |-> {1}, channels |-> {1, 2},
     clock |-> {0, 1, TrialTicks}]

\* the names handed to add_player_by_name, the empty string among them
CallNames == DisplayNames \cup {<<>>}

\* what a store function returned to its caller
returned(fn, g, key, out) == [cmd |-> fn, g |-> g, key |-> key, out |-> out]

\* an add that keeps the uniqueness check and leaves out "if not norm"
add_player_by_name_unvalidated(g, name) ==
    /\ AtAwait
    /\ g \in InGuilds
    /\ LET norm == normalize_name(name)
       IN IF external_exists(g, norm)
          THEN /\ resp' = returned("add_player_by_name", g, norm, "AlreadyExists")
               /\ UNCHANGED <<players_external, sent>>
          ELSE /\ Rows < MaxRows
               /\ players_external' = insert_external(g, name, now)
               /\ sent' = [sent EXCEPT !.name[<<g, norm>>] = 0]
               /\ resp' = returned("add_player_by_name", g, norm, "Created")
    /\ UNCHANGED <<now, world, schema, notes, players, guild_settings, inflight, sweep>>

\* add_player_by_name(guild_id, name): the name that is empty once normalized
\* is turned down before the store is opened
add_player_by_name(g, name) ==
    /\ AtAwait
    /\ g \in InGuilds
    /\ LET norm == normalize_name(name)
       IN IF norm = <<>>
          THEN /\ resp' = returned("add_player_by_name", g, norm, "Invalid")
               /\ UNCHANGED <<players_external, sent>>
          ELSE IF external_exists(g, norm)
          THEN /\ resp' = returned("add_player_by_name", g, norm, "AlreadyExists")
               /\ UNCHANGED <<players_external, sent>>
          ELSE /\ Rows < MaxRows
               /\ players_external' = insert_external(g, name, now)
               /\ sent' = [sent EXCEPT !.name[<<g, norm>>] = 0]
               /\ resp' = returned("add_player_by_name", g, norm, "Created")
    /\ UNCHANGED <<now, world, schema, notes, players, guild_settings, inflight, sweep>>

\* the return of a mark_notified call; again is history: the row was marked before
marked(fn, g, key, again) ==
    [cmd |-> fn, g |-> g, key |-> key, out |-> "None", again |-> again]

\* await mark_notified(guild_id, user_id), by any caller
call_mark_notified(g, user_id) ==
    /\ AtAwait
    /\ g \in InGuilds /\ user_id \in world.members
    /\ players' = mark_notified(g, user_id)
    /\ resp' = marked("mark_notified", g, user_id,
                      players[<<g, user_id>>] # NoRow /\ players[<<g, user_id>>].notified_done = 1)
    /\ UNCHANGED <<now, world, schema, notes, players_external, guild_settings, inflight, sweep, sent>>

\* await mark_notified_external(guild_id, name_key), by any caller
call_mark_notified_external(g, name_key) ==
    /\ AtAwait
    /\ g \in InGuilds
    /\ players_external' = mark_notified_external(g, name_key)
    /\ resp' = marked("mark_notified_external", g, name_key,
                      /\ players_external[<<g, name_key>>] # NoRow
                      /\ players_external[<<g, name_key>>].notified_done = 1)
    /\ UNCHANGED <<now, world, schema, notes, players, guild_settings, inflight, sweep, sent>>

\* /gettrialchannel: the channel on record for the guild, or the hint to set one
get_trial_channel_cmd(g, fault) ==
    /\ AtAwait
    /\ g \in InGuilds
    /\ resp' = IF fault THEN Raised("gettrialchannel")
                ELSE IF get_trial_channel_id(g) # 0
                THEN [cmd |-> "gettrialchannel", g |-> g, out |-> "Channel",
                      channel_id |-> get_trial_channel_id(g)]
                ELSE [cmd |-> "gettrialchannel", g |-> g, out |-> "NoChannel"]
    /\ UNCHANGED <<now, world, schema, notes, store, inflight, sweep, sent>>

\* fetch_all_discord_players: the users of the guild ORDER BY added_at_utc ASC.
\* The order of rows whose added_at_utc is equal is the engine's choice.
fetch_all_discord_players(g) ==
    LET S == {u \in Users : players[<<g, u>>] # NoRow}
    IN {q \in Orders(S) :
          \A i, j \in 1..Cardinality(S) :
             i < j => TextLE(players[<<g, q[i]>>].added_at_utc, players[<<g, q[j]>>].added_at_utc)}

\* fetch_all_external_players: the named rows of the guild ORDER BY added_at_utc ASC
fetch_all_external_players(g) ==
    LET S == {k \in NameKeys : players_external[<<g, k>>] # NoRow}
    IN {q \in Orders(S) :
          \A i, j \in 1..Cardinality(S) :
             i < j => TextLE(players_external[<<g, q[i]>>].added_at_utc,
                             players_external[<<g, q[j]>>].added_at_utc)}

\* _status_and_delta: "En essai" while end > now, "Terminé" otherwise
en_essai(row) == parse_iso(row.trial_end_utc) > now

\* one line of the list: whom it shows, since when, and under which heading
line(kind, key, row) ==
    [kind |-> kind, key |-> key, added_at_utc |-> row.added_at_utc, en_essai |-> en_essai(row)]

\* /list: the lines of the linked rows, then the lines of the named rows, each
\* appended to en_essai_lines or to termines_lines; the pages show the first
\* list, then the second
list_all(g, fault) ==
    /\ AtAwait
    /\ g \in InGuilds
    /\ IF fault
       THEN resp' = Raised("list")
       ELSE \E disc_rows \in fetch_all_discord_players(g),
               ext_rows \in fetch_all_external_players(g) :
               LET lines ==
                       [i \in 1..Len(disc_rows) |->
                           line("member", disc_rows[i], players[<<g, disc_rows[i]>>])]
                       \o [i \in 1..Len(ext_rows) |->
                           line("name", ext_rows[i], players_external[<<g, ext_rows[i]>>])]
                   InTrial(l) == l.en_essai
                   Ended(l) == ~l.en_essai
                   en_essai_lines == SelectSeq(lines, InTrial)
                   termines_lines == SelectSeq(lines, Ended)
               IN resp' = IF lines = <<>>
                          THEN [cmd |-> "list", g |-> g, out |-> "Empty"]
                          ELSE [cmd |-> "list", g |-> g, out |-> "List",
                                lines |-> en_essai_lines \o termines_lines]
    /\ UNCHANGED <<now, world, schema, notes, store, inflight, sweep, sent>>

\* a /check that calls the trial over only when remaining is below zero
check_en_essai_strict(row) == ~(parse_iso(row.trial_end_utc) - now < 0)

\* check_member: remaining = trial_end_utc - now_utc; "terminée" when
\* remaining.total_seconds() <= 0, "En période d'essai" otherwise
check_en_essai(row) == ~(parse_iso(row.trial_end_utc) - now <= 0)

\* /check member: the row of get_player_row and its status, or "not in the list"
check_member(g, u, fault) ==
    /\ AtAwait
    /\ g \in InGuilds /\ u \in world.members
    /\ resp' = IF fault THEN Raised("check")
                ELSE IF players[<<g, u>>] = NoRow
                THEN [cmd |-> "check", g |-> g, key |-> u, out |-> "NotInList"]
                ELSE [cmd |-> "check", g |-> g, key |-> u, out |-> "Status",
                      en_essai |-> check_en_essai(players[<<g, u>>])]
    /\ UNCHANGED <<now, world, schema, notes, store, inflight, sweep, sent>>

NextStore ==
    \/ Tick
    \/ \E g \in Guilds, u \in Users, fault \in BOOLEAN : check_member(g, u, fault)
    \/ \E g \in Guilds, fault \in BOOLEAN : list_all(g, fault)
    \/ \E g \in Guilds, u \in Users, fault \in BOOLEAN : enter_member(g, u, fault)
    \/ \E g \in Guilds, name \in CallNames : add_player_by_name(g, name)
    \/ \E g \in Guilds, u \in Users, fault \in BOOLEAN : leave_member(g, u, fault)
    \/ \E g \in Guilds, u \in Users : call_mark_notified(g, u)
    \/ \E g \in Guilds, k \in NameKeys : call_mark_notified_external(g, k)
    \/ \E g \in Guilds, ch \in Channels, fault \in BOOLEAN : set_trial_channel_cmd(g, ch, fault)
    \/ \E g \in Guilds, fault \in BOOLEAN : get_trial_channel_cmd(g, fault)

InitStore == InitIn({Ledger})

\* two guilds, with the store functions called in any order
SpecStore == InitStore /\ [][NextStore]_vars

----------------------------------------------------------------------------
(* The running loop *)

\* the state after the first on_ready: the tables are empty and trial_checker
\* has been started
InitLive ==
    /\ now = 0
    /\ world = Desk
    /\ schema = Columns
    /\ players = [k \in Guilds \X Users |-> NoRow]
    /\ players_external = [k \in Guilds \X StoredKeys |-> NoRow]
    /\ guild_settings = [g \in Guilds |-> 0]
    /\ player_notes = [k \in Guilds \X Users |-> NoRow]
    /\ player_notes_external = [k \in Guilds \X NameKeys |-> NoRow]
    /\ inflight = [c \in Cmds |-> NoCmd]
    /\ resp = NoResp
    /\ pc = "idle"
    /\ todo = <<>>
    /\ due = <<>>
    /\ sent = [member |-> [k \in Guilds \X Users |-> 0],
               name |-> [k \in Guilds \X StoredKeys |-> 0]]
    /\ iter = NoIter

\* the steps of trial_checker: the timer's tick and every await of a pass
Sweep ==
    \/ \E fault, is_text, perms_ok \in BOOLEAN : sweep_start(fault, is_text, perms_ok)
    \/ \E fault \in BOOLEAN : sweep_fetch(fault)
    \/ \E ok \in BOOLEAN : sweep_send(ok)
    \/ \E fault \in BOOLEAN : sweep_mark(fault)
    \/ \E fault \in BOOLEAN : sweep_fetch_ext(fault)
    \/ \E ok \in BOOLEAN : sweep_send_ext(ok)
    \/ \E fault \in BOOLEAN : sweep_mark_ext(fault)
    \/ \E fault, is_text, perms_ok \in BOOLEAN : sweep_next(fault, is_text, perms_ok)

\* records are added and never removed, a channel is set, the clock moves, the
\* gateway may reconnect, and the loop runs
NextLive ==
    \/ Tick
    \/ \E g \in Guilds, u \in Users, fault \in BOOLEAN : enter_member(g, u, fault)
    \/ \E g \in Guilds, name \in DisplayNames, fault \in BOOLEAN : enter_name(g, name, fault)
    \/ \E g \in Guilds, ch \in Channels, fault \in BOOLEAN : set_trial_channel_cmd(g, ch, fault)
    \/ on_ready
    \/ Sweep

\* tasks.loop(minutes=5.0): while the loop runs its timer fires and every
\* await of a pass returns or raises; nothing schedules a reconnect
SpecLive == InitLive /\ [][NextLive]_vars /\ WF_vars(Sweep)

----------------------------------------------------------------------------
(* humanize_timedelta *)

\* the longest duration handed to humanize_timedelta, in days
MaxDays == 2

\* the durations handed to humanize_timedelta, in ticks: either sign, with and
\* without whole days, hours and minutes, odd seconds and a fraction of a second
Deltas ==
    { sign * ((((d * 24 + h) * 60 + mi) * 60 + s) * TicksPerSecond + f) :
        sign \in {1, -1}, d \in 0..MaxDays, h \in {0, 1, 23}, mi \in {0, 1, 59},
        s \in {0, 59}, f \in 0..(TicksPerSecond - 1) }

abs(x) == IF x < 0 THEN -x ELSE x

\* f"{n}{unit}"
part(n, unit) == [n |-> n, unit |-> unit]

\* parts.append(x) if the condition holds
append_if(parts, cond, x) == IF cond THEN Append(parts, x) ELSE parts

\* a humanize_timedelta without abs(): int() cuts toward zero, then divmod
\* floors the negative count
humanize_timedelta_signed(delta) ==
    LET total_seconds == IF delta < 0 THEN -((-delta) \div TicksPerSecond)
                         ELSE delta \div TicksPerSecond
        minutes0 == total_seconds \div 60
        hours0 == minutes0 \div 60
        minutes == minutes0 % 60
        days == hours0 \div 24
        hours == hours0 % 24
        p1 == append_if(<<>>, days # 0, part(days, "j"))
        p2 == append_if(p1, hours # 0, part(hours, "h"))
        p3 == append_if(p2, minutes # 0 /\ days = 0, part(minutes, "m"))
    IN append_if(p3, p3 = <<>>, part(0, "m"))

\* humanize_timedelta: the parts that " ".join puts together
humanize_timedelta(delta) ==
    LET total_seconds == abs(delta) \div TicksPerSecond
        minutes0 == total_seconds \div 60
        hours0 == minutes0 \div 60
        minutes == minutes0 % 60
        days == hours0 \div 24
        hours == hours0 % 24
        p1 == append_if(<<>>, days # 0, part(days, "j"))
        p2 == append_if(p1, hours # 0, part(hours, "h"))
        p3 == append_if(p2, minutes # 0 /\ days = 0, part(minutes, "m"))
    IN append_if(p3, p3 = <<>>, part(0, "m"))

\* a caller hands a duration to humanize_timedelta
call_humanize_timedelta(delta) ==
    /\ resp' = [cmd |-> "humanize_timedelta", delta |-> delta, out |-> humanize_timedelta(delta)]
    /\ UNCHANGED <<now, world, schema, notes, store, inflight, sweep, sent>>

NextHumanize == \E delta \in Deltas : call_humanize_timedelta(delta)

InitHumanize == InitIn({Desk})

\* humanize_timedelta applied to each duration
SpecHumanize == InitHumanize /\ [][NextHumanize]_vars

----------------------------------------------------------------------------
(* The claims *)

LinkedKeys == Guilds \X Users
NamedKeys == Guilds \X NameKeys

\* C1: over any sequence of passes and failures, at most one reminder is
\* successfully sent for any one trial record, linked or named
C1_AtMostOneReminder ==
    /\ \A k \in LinkedKeys : sent.member[k] <= 1
    /\ \A k \in NamedKeys : sent.name[k] <= 1

\* C2: no record whose trial has not expired (trial_end > now) is marked notified
C2_NotifiedOnlyWhenExpired ==
    /\ \A k \in LinkedKeys :
          players[k] # NoRow /\ players[k].notified_done = 1
             => parse_iso(players[k].trial_end_utc) <= now
    /\ \A k \in NamedKeys :
          players_external[k] # NoRow /\ players_external[k].notified_done = 1
             => parse_iso(players_external[k].trial_end_utc) <= now

\* C3: fetch_due returns a record exactly when its notified flag is false and
\* its trial_end is at or before now, and a record that was marked is returned
\* at no instant, in both families
C3_FetchDue ==
    \A g \in InGuilds :
       /\ \A u \in Users :
             u \in fetch_due_trials(g)
                <=> /\ players[<<g, u>>] # NoRow
                    /\ players[<<g, u>>].notified_done = 0
                    /\ parse_iso(players[<<g, u>>].trial_end_utc) <= now
       /\ \A k \in NameKeys :
             k \in fetch_due_trials_external(g)
                <=> /\ players_external[<<g, k>>] # NoRow
                    /\ players_external[<<g, k>>].notified_done = 0
                    /\ parse_iso(players_external[<<g, k>>].trial_end_utc) <= now
       /\ \A u \in Users, t \in ClockValues :
             players[<<g, u>>] # NoRow /\ players[<<g, u>>].notified_done = 1
                => ~is_due(players[<<g, u>>], isoformat(t))
       /\ \A k \in NameKeys, t \in ClockValues :
             players_external[<<g, k>>] # NoRow /\ players_external[<<g, k>>].notified_done = 1
                => ~is_due(players_external[<<g, k>>], isoformat(t))

\* a due record is fetched next to a record marked at an earlier instant, when
\* the sweep has just fetched
C3_Witness ==
    /\ pc = "send"
    /\ \E g \in InGuilds, u, v \in Users :
          /\ u \in fetch_due_trials(g)
          /\ players[<<g, v>>] # NoRow
          /\ players[<<g, v>>].notified_done = 1
          /\ parse_iso(players[<<g, v>>].notified_at_utc) < now

\* C4: no step turns a record's notified flag from true to false, only the
\* sweep's mark_notified / mark_notified_external turns it to true, and a
\* command creates a record with the flag false
C4_NotifiedOnlyBySweep ==
    [][ /\ \A k \in LinkedKeys :
             /\ players[k] # NoRow /\ players'[k] # NoRow /\ players[k].notified_done = 1
                   => players'[k].notified_done = 1
             /\ players[k] # NoRow /\ players'[k] # NoRow /\ players[k].notified_done = 0
                /\ players'[k].notified_done = 1
                   => pc = "mark"
             /\ players[k] = NoRow /\ players'[k] # NoRow => players'[k].notified_done = 0
        /\ \A k \in NamedKeys :
             /\ players_external[k] # NoRow /\ players_external'[k] # NoRow
                /\ players_external[k].notified_done = 1
                   => players_external'[k].notified_done = 1
             /\ players_external[k] # NoRow /\ players_external'[k] # NoRow
                /\ players_external[k].notified_done = 0
                /\ players_external'[k].notified_done = 1
                   => pc = "mark_ext"
             /\ players_external[k] = NoRow /\ players_external'[k] # NoRow
                   => players_external'[k].notified_done = 0 ]_vars

\* a command has just answered about a record the sweep had marked
C4_Witness ==
    /\ resp.out = "AlreadyExists"
    /\ resp.kind = "member"
    /\ players[<<resp.g, resp.key>>].notified_done = 1

\* the record a fetched row stood for is still the record under its key
Current(g, it) ==
    IF it.kind = "member"
    THEN players[<<g, it.key>>] # NoRow
         /\ players[<<g, it.key>>].added_at_utc = it.added_at_utc
    ELSE players_external[<<g, it.key>>] # NoRow
         /\ players_external[<<g, it.key>>].added_at_utc = it.added_at_utc

Record(g, it) ==
    IF it.kind = "member" THEN players[<<g, it.key>>] ELSE players_external[<<g, it.key>>]

C5_Served ==
    pc = "next" /\ iter.failed = "none"
       => \A it \in iter.fetched :
             /\ it \in iter.told
             /\ Current(iter.g, it) => Record(iter.g, it).notified_done = 1

C5_PassGoesOn ==
    pc = "next" /\ iter.failed = "send" /\ Tail(todo) # <<>>
       => \/ pc' = "stopped"
          \/ todo' = Tail(todo) /\ iter'.g = Head(Tail(todo)) /\ pc' \in {"fetch", "next"}

\* C5: in a pass where sending fails for guild A and succeeds for guild B, the
\* pass goes on to the guilds after A, and every due record of B is sent a
\* reminder and marked notified in that pass, in either iteration order
C5_OtherGuildServed == []C5_Served /\ [][C5_PassGoesOn]_vars

\* guild B's visit has ended with records sent and marked after the send for
\* guild A failed in the same pass
C5_Witness ==
    /\ pc = "next"
    /\ iter.failed = "none"
    /\ iter.broke # {}
    /\ \E it \in iter.fetched : Current(iter.g, it)

\* the failed row of a visit that a failed send ended is of the linked family
FailedLinked == "user_id" \in DOMAIN Head(due)

\* C6: a send failure for one due record of a guild's batch does not keep the
\* other due records of the batch, linked and named, from being sent and marked
\* in the same pass
C6_BatchContinues ==
    pc = "next" /\ iter.failed = "send"
       => /\ Tail(due) = <<>>
          /\ FailedLinked => fetch_due_trials_external(iter.g) = {}

\* C7: a record whose send failed is not marked: its notified flag stays false
\* and fetch_due returns it again now and at every later instant
C7_FailedSendStaysDue ==
    pc = "next" /\ iter.failed = "send"
       => LET it == IF FailedLinked
                    THEN item("member", Head(due).user_id, Head(due))
                    ELSE item("name", normalize_name(Head(due).name), Head(due))
          IN Current(iter.g, it)
                => /\ Record(iter.g, it).notified_done = 0
                   /\ IF FailedLinked
                      THEN it.key \in fetch_due_trials(iter.g)
                      ELSE it.key \in fetch_due_trials_external(iter.g)
                   /\ \A t \in ClockValues :
                         t >= now => is_due(Record(iter.g, it), isoformat(t))

\* a send has just failed for a linked record that is still in the store
C7_Witness ==
    /\ pc = "next"
    /\ iter.failed = "send"
    /\ FailedLinked
    /\ Current(iter.g, item("member", Head(due).user_id, Head(due)))

\* C8: adding the same account twice in one guild answers Created the first time
\* and AlreadyExists the second, and the second add leaves the store unchanged
C8_SecondAddRejected ==
    [][ /\ resp'.cmd = "enter" /\ resp'.out \in {"Created", "AlreadyExists"}
           => resp'.kind \in {"member", "name"}
        /\ \A g \in Guilds, u \in Users :
             /\ resp' = member_resp(g, u, "Created")
                   => /\ players[<<g, u>>] = NoRow
                      /\ players'[<<g, u>>] # NoRow
                      /\ players'[<<g, u>>].notified_done = 0
             /\ resp' = member_resp(g, u, "AlreadyExists")
                   => /\ players[<<g, u>>] # NoRow
                      /\ UNCHANGED store ]_vars

\* a second add of an account has just been rejected at a later instant than
\* the first, the record still unmarked
C8_Witness ==
    /\ resp.out = "AlreadyExists"
    /\ resp.kind = "member"
    /\ players[<<resp.g, resp.key>>].notified_done = 0
    /\ parse_iso(players[<<resp.g, resp.key>>].added_at_utc) < now

\* str.split() and case folding: the words of a display name
RECURSIVE Split(_, _, _)
Split(s, word, acc) ==
    IF s = <<>> THEN (IF word = <<>> THEN acc ELSE Append(acc, word))
    ELSE IF Head(s) = " "
         THEN Split(Tail(s), <<>>, IF word = <<>> THEN acc ELSE Append(acc, word))
         ELSE Split(Tail(s), Append(word, Lower(Head(s))), acc)

Words(name) == Split(name, <<>>, <<>>)

\* C9: of two display names with the same words up to case and whitespace, the
\* first is added and the second is answered AlreadyExists; one row exists for
\* them and it keeps the first display name
C9_SameKeyRejected ==
    [][ /\ resp'.out = "Created" /\ resp'.kind = "name"
           => /\ \A k \in NameKeys :
                    players_external[<<resp'.g, k>>] # NoRow
                       => Words(players_external[<<resp'.g, k>>].name) # Words(resp'.name)
              /\ \E k \in NameKeys :
                    /\ players_external'[<<resp'.g, k>>] # NoRow
                    /\ players_external'[<<resp'.g, k>>].name = resp'.name
        /\ resp'.out = "AlreadyExists" /\ resp'.kind = "name"
           => /\ \E k \in NameKeys :
                    /\ players_external[<<resp'.g, k>>] # NoRow
                    /\ Words(players_external[<<resp'.g, k>>].name) = Words(resp'.name)
              /\ UNCHANGED store
        /\ players_external' # players_external
           => \A g \in Guilds, k1, k2 \in NameKeys :
                 /\ players_external'[<<g, k1>>] # NoRow
                 /\ players_external'[<<g, k2>>] # NoRow
                 /\ Words(players_external'[<<g, k1>>].name)
                       = Words(players_external'[<<g, k2>>].name)
                 => k1 = k2 ]_vars

\* a display name has just been rejected whose key is taken by a row that shows
\* another display name
C9_Witness ==
    /\ resp.out = "AlreadyExists"
    /\ resp.kind = "name"
    /\ players_external[<<resp.g, resp.key>>].name # resp.name

FourteenDays == 14 * 24 * 60 * 60 * TicksPerSecond

C10_Offset ==
    /\ \A k \in LinkedKeys :
          players[k] # NoRow
             => parse_iso(players[k].trial_end_utc) = parse_iso(players[k].added_at_utc) + FourteenDays
    /\ \A k \in NamedKeys :
          players_external[k] # NoRow
             => parse_iso(players_external[k].trial_end_utc)
                   = parse_iso(players_external[k].added_at_utc) + FourteenDays

C10_Kept ==
    /\ \A k \in LinkedKeys :
          players[k] # NoRow /\ players'[k] # NoRow
             => /\ players'[k].added_at_utc = players[k].added_at_utc
                /\ players'[k].trial_end_utc = players[k].trial_end_utc
    /\ \A k \in NamedKeys :
          players_external[k] # NoRow /\ players_external'[k] # NoRow
             => /\ players_external'[k].added_at_utc = players_external[k].added_at_utc
                /\ players_external'[k].trial_end_utc = players_external[k].trial_end_utc

\* C10: every trial record has trial_end = added_at + 14 days, and no step
\* (mark_notified, the sweep, a rejected add, a notes operation) changes the
\* added_at or the trial_end of a record that is in the store
C10_TrialEndFixed == []C10_Offset /\ [][C10_Kept]_vars

\* the optional notes of a member have just been saved, the member's record
\* already marked by the sweep
C10_Witness ==
    /\ resp.cmd = "note"
    /\ resp.out = "OptionalSaved"
    /\ \E k \in LinkedKeys :
          /\ players[k] # NoRow
          /\ players[k].notified_done = 1
          /\ player_notes[k] # NoRow
          /\ player_notes[k].age = "y"


----------------------------------------------------------------------------
(* C11 *)

\* the messages a command can end with; "Failure" is the generic failure notice
Answers ==
    {"Created", "AlreadyExists", "Usage", "Invalid", "Removed", "NotInList", "Set",
     "Channel", "NoChannel", "List", "Empty", "Status", "Denied", "Saved", "OptionalSaved", "Deleted", "NoNotes",
     "Failure"}

\* C11: every command invocation ends with a user-visible response: a success,
\* not-found, already-exists or permission-denied message or, when an unexpected
\* error such as a store fault is raised inside the command, the generic failure
\* notice; no invocation ends without a response.
C11_AlwaysAnswered ==
    resp.cmd # "none" => resp.out \in Answers


----------------------------------------------------------------------------
(* C12 *)

\* what the commands and the sweep read of a trial record: every column but
\* notified_at_utc, which /check, /list and the two due queries never use
Shown(row) ==
    IF row = NoRow THEN NoRow
    ELSE [c \in (DOMAIN row) \ {"notified_at_utc"} |-> row[c]]

C12_Linked ==
    resp'.cmd = "mark_notified" =>
        LET k == <<resp'.g, resp'.key>>
        IN /\ resp'.out = "None"
           /\ \A j \in LinkedKeys : j # k => players'[j] = players[j]
           /\ players[k] = NoRow => players'[k] = NoRow
           /\ players[k] # NoRow => players'[k] # NoRow /\ players'[k].notified_done = 1
           /\ resp'.again => Shown(players'[k]) = Shown(players[k])
           /\ players_external' = players_external
           /\ sent' = sent

C12_Named ==
    resp'.cmd = "mark_notified_external" =>
        LET k == <<resp'.g, resp'.key>>
        IN /\ resp'.out = "None"
           /\ \A j \in NamedKeys : j # k => players_external'[j] = players_external[j]
           /\ players_external[k] = NoRow => players_external'[k] = NoRow
           /\ players_external[k] # NoRow =>
                 players_external'[k] # NoRow /\ players_external'[k].notified_done = 1
           /\ resp'.again => Shown(players_external'[k]) = Shown(players_external[k])
           /\ players' = players
           /\ sent' = sent

\* C12: calling mark_notified (or mark_notified_external) on a key whose
\* record is already marked leaves the record as one call left it
\* (notified_done = 1 and every column that is read back unchanged), raises no
\* error, creates no row, touches no other row and sends no message; called on
\* an absent key it creates nothing.
C12_MarkTwice == [][C12_Linked /\ C12_Named]_vars

\* a call has marked again, at the end of the trial, a linked record that was
\* already marked
C12_Witness ==
    /\ resp.cmd = "mark_notified" /\ resp.again
    /\ players[<<resp.g, resp.key>>].notified_done = 1
    /\ players[<<resp.g, resp.key>>].added_at_utc = isoformat(0)
    /\ now = TrialTicks
    /\ players[<<resp.g, resp.key>>].notified_at_utc = isoformat(now)


----------------------------------------------------------------------------
(* C13 *)

\* a step that removes the linked record under k and reports that it existed
RemovesLinked(k) ==
    /\ Next
    /\ players'[k] = NoRow
    /\ resp'.cmd = "leave" /\ resp'.out = "Removed"

\* a step that removes the named record under k
RemovesNamed(k) ==
    /\ Next
    /\ players_external'[k] = NoRow

\* whatever state a record is in, a removal of it can be asked for
C13_Removable ==
    AtAwait =>
        /\ \A k \in LinkedKeys :
              (k[1] \in InGuilds /\ k[2] \in world.members /\ players[k] # NoRow)
                  => ENABLED RemovesLinked(k)
        /\ \A k \in NamedKeys :
              (k[1] \in InGuilds /\ players_external[k] # NoRow) => ENABLED RemovesNamed(k)

\* a removal that returned deleted the addressed record and no other, and
\* returned true exactly when the record existed
C13_Returned ==
    (resp'.cmd = "leave" /\ resp'.out \in {"Removed", "NotInList"}) =>
        LET k == <<resp'.g, resp'.key>>
        IN /\ players'[k] = NoRow
           /\ resp'.out = "Removed" <=> players[k] # NoRow
           /\ \A j \in LinkedKeys : j # k => players'[j] = players[j]
           /\ players_external' = players_external

\* C13: remove_linked and remove_named each delete the addressed trial record
\* unconditionally, from any state (Active, Due or Notified), and return true
\* exactly when a record existed before the call; removing an absent key
\* returns false and changes nothing.
C13_RemoveEither == []C13_Removable /\ [][C13_Returned]_vars


----------------------------------------------------------------------------
(* C14 *)

\* a removal of a trial record leaves every notes record as it was
C14_RemovalKeepsNotes ==
    resp'.cmd = "leave" =>
        /\ \A k \in LinkedKeys : get_notes(k[1], k[2])' = get_notes(k[1], k[2])
        /\ \A k \in NamedKeys : get_notes_external(k[1], k[2])' = get_notes_external(k[1], k[2])

\* a notes record disappears only in a /delnotes that reports the deletion
C14_OnlyDelnotes ==
    /\ \A k \in LinkedKeys :
          (get_notes(k[1], k[2]) # NoRow /\ get_notes(k[1], k[2])' = NoRow)
              => resp'.cmd = "delnotes" /\ resp'.out = "Deleted"
    /\ \A k \in NamedKeys :
          (get_notes_external(k[1], k[2]) # NoRow /\ get_notes_external(k[1], k[2])' = NoRow)
              => resp'.cmd = "delnotes" /\ resp'.out = "Deleted"

\* C14: removing a trial record never deletes or changes its notes record:
\* after the removal get_notes for that key returns the same content, and the
\* notes record disappears only in an explicit delete of the notes.
C14_NotesOutliveTrial == [][C14_RemovalKeepsNotes /\ C14_OnlyDelnotes]_vars

\* /leave has just removed a trial record whose notes record is still there
C14_Witness ==
    /\ resp.cmd = "leave" /\ resp.out = "Removed"
    /\ players[<<resp.g, resp.key>>] = NoRow
    /\ get_notes(resp.g, resp.key) # NoRow


----------------------------------------------------------------------------
(* C15 *)

\* the records of guild g, linked and named
Listed(g) ==
    {<<"member", u>> : u \in {v \in Users : players[<<g, v>>] # NoRow}}
    \cup {<<"name", k>> : k \in {n \in NameKeys : players_external[<<g, n>>] # NoRow}}

\* C15: list_all presents the linked and named records of a community as one
\* merged sequence sorted ascending by added_at (records of equal added_at in
\* insertion order): every record of the community is on the list once, and no
\* line comes before a line of an earlier added_at.
C15_MergedByAddedAt ==
    (resp.cmd = "list" /\ resp.out = "List") =>
        /\ {<<resp.lines[i].kind, resp.lines[i].key>> : i \in 1..Len(resp.lines)} = Listed(resp.g)
        /\ Len(resp.lines) = Cardinality(Listed(resp.g))
        /\ \A i, j \in 1..Len(resp.lines) :
              i < j => parse_iso(resp.lines[i].added_at_utc) <= parse_iso(resp.lines[j].added_at_utc)


----------------------------------------------------------------------------
(* C16 *)

\* the step is a submit of the required-fields form that was saved
Saved == resp'.cmd = "note" /\ resp'.out = "Saved"

C16_Linked ==
    \A k \in LinkedKeys :
        /\ (player_notes[k] # NoRow /\ player_notes'[k] # NoRow) =>
              /\ player_notes'[k].age = player_notes[k].age
              /\ player_notes'[k].contribution = player_notes[k].contribution
        /\ (player_notes[k] = NoRow /\ player_notes'[k] # NoRow) =>
              player_notes'[k].age = "" /\ player_notes'[k].contribution = ""

C16_Named ==
    \A k \in NamedKeys :
        /\ (player_notes_external[k] # NoRow /\ player_notes_external'[k] # NoRow) =>
              /\ player_notes_external'[k].age = player_notes_external[k].age
              /\ player_notes_external'[k].contribution = player_notes_external[k].contribution
        /\ (player_notes_external[k] = NoRow /\ player_notes_external'[k] # NoRow) =>
              player_notes_external'[k].age = "" /\ player_notes_external'[k].contribution = ""

\* C16: re-submitting the five required note fields for a key whose notes
\* record exists leaves age and contribution at their prior values; on the
\* first insert for a key age and contribution are empty.
C16_UpsertKeepsOptional == [][Saved => (C16_Linked /\ C16_Named)]_vars


----------------------------------------------------------------------------
(* C17 *)

\* the columns update_optional may change
Optional == {"age", "contribution", "updated_at_utc"}

\* a notes row without the optional columns
Required(row) ==
    IF row = NoRow THEN NoRow ELSE [c \in (DOMAIN row) \ Optional |-> row[c]]

\* the step is a submit of the optional-fields form that was saved
OptionalSaved == resp'.cmd = "note" /\ resp'.out = "OptionalSaved"

\* C17: update_optional changes only age, contribution and updated_at of the
\* existing notes record and leaves its five required fields unchanged; when no
\* notes record exists for the key it creates none and raises no error.
C17_OptionalOnly ==
    [][OptionalSaved =>
          /\ \A k \in LinkedKeys : Required(player_notes'[k]) = Required(player_notes[k])
          /\ \A k \in NamedKeys :
                Required(player_notes_external'[k]) = Required(player_notes_external[k])]_vars

\* the optional form has filled in a contribution on a record whose required
\* fields were entered before
C17_Witness ==
    /\ resp.cmd = "note" /\ resp.out = "OptionalSaved"
    /\ \E k \in LinkedKeys :
          /\ player_notes[k] # NoRow
          /\ player_notes[k].contribution = "y"
          /\ player_notes[k].objectives = "x"


----------------------------------------------------------------------------
(* C18 *)

\* a name-keyed notes record is written only under a key that has a named
\* trial record at the time of the write
C18_WrittenUnderTrial ==
    \A k \in NamedKeys :
        (player_notes_external'[k] # player_notes_external[k] /\ player_notes_external'[k] # NoRow)
            => players_external[k] # NoRow /\ players_external'[k] # NoRow

\* the form submitted for a name that is not on the list changes no notes
C18_Refused ==
    (resp'.cmd = "note" /\ resp'.out = "NotInList") =>
        player_notes_external' = player_notes_external /\ player_notes' = player_notes

\* C18: a name-keyed notes record is created or overwritten only when a
\* NamedTrial with the same (community, name_key) exists at the time of the
\* write; the notes form submitted for an untracked name is refused and leaves
\* the notes store unchanged.
C18_NoOrphanWrite == [][C18_WrittenUnderTrial /\ C18_Refused]_vars

\* the form has saved notes for a name that is on the list
C18_Witness ==
    /\ resp.cmd = "note" /\ resp.out = "Saved"
    /\ \E k \in NamedKeys : player_notes_external[k] # NoRow /\ players_external[k] # NoRow


----------------------------------------------------------------------------
(* C19 *)

\* add_player_by_name called with a name that is empty once normalized answers
\* "invalid" and writes nothing
C19_Rejected ==
    (resp'.cmd = "add_player_by_name" /\ resp'.key = <<>>) =>
        /\ resp'.out = "Invalid"
        /\ UNCHANGED <<store, notes, sent>>

\* no trial record is stored under the empty key
C19_NoEmptyKey == \A g \in Guilds : players_external[<<g, <<>>>>] = NoRow

\* C19: add_named with a display name that is empty after normalization (empty
\* or whitespace only) is rejected as invalid and leaves the store unchanged: no
\* NamedTrial row is created.
C19_BlankNameRejected == []C19_NoEmptyKey /\ [][C19_Rejected]_vars

\* a whitespace-only name has been turned down while the guild had room for a row
C19_Witness ==
    /\ resp.cmd = "add_player_by_name" /\ resp.key = <<>> /\ resp.out = "Invalid"
    /\ Rows < MaxRows
    /\ \E k \in NamedKeys : players_external[k] # NoRow


----------------------------------------------------------------------------
(* C20 *)

\* the step is a /settrialchannel that was carried out
ChannelSet == resp'.cmd = "settrialchannel" /\ resp'.out = "Set"

\* a set makes its channel the guild's channel and leaves the other guilds'
\* configuration alone; no other step changes any configuration; what
\* /gettrialchannel reports is the channel on record
C20_Step ==
    /\ ChannelSet =>
          \A h \in Guilds :
             get_trial_channel_id(h)' =
                 IF h = resp'.g THEN resp'.channel_id ELSE get_trial_channel_id(h)
    /\ ~ChannelSet => \A h \in Guilds : get_trial_channel_id(h)' = get_trial_channel_id(h)
    /\ (resp'.cmd = "gettrialchannel" /\ resp'.out = "Channel") =>
          resp'.channel_id = get_trial_channel_id(resp'.g)
    /\ (resp'.cmd = "gettrialchannel" /\ resp'.out = "NoChannel") =>
          get_trial_channel_id(resp'.g) = 0

\* a guild has no channel or one of the channels a Lead could choose
C20_OneChannel == \A g \in Guilds : get_trial_channel_id(g) \in {0} \cup world.channels

\* C20: after any sequence of set-notification-channel calls each community has
\* at most one configured channel, get_trial_channel_id returns the channel of
\* the most recent set for that community, and the configuration of every other
\* community is unchanged.
C20_LastSetWins == []C20_OneChannel /\ [][C20_Step]_vars

\* guild 1 has just been set to channel 2 while guild 2 stays on channel 1
C20_Witness ==
    /\ resp.cmd = "settrialchannel" /\ resp.out = "Set"
    /\ resp.g = 1 /\ resp.channel_id = 2
    /\ get_trial_channel_id(1) = 2
    /\ get_trial_channel_id(2) = 1


----------------------------------------------------------------------------
(* C21 *)

\* the row a line of the list was made from
LineRow(g, l) ==
    IF l.kind = "member" THEN players[<<g, l.key>>] ELSE players_external[<<g, l.key>>]

\* the time condition of the two due queries: trial_end_utc <= now, as TEXT
TimeDue(row) == TextLE(row.trial_end_utc, isoformat(now))

\* /check labels the record as the list would, and "terminée" exactly when
\* the record meets the time condition of the due queries
C21_Check ==
    (resp.cmd = "check" /\ resp.out = "Status") =>
        LET row == players[<<resp.g, resp.key>>]
        IN /\ resp.en_essai <=> parse_iso(row.trial_end_utc) > now
           /\ resp.en_essai = en_essai(row)
           /\ ~resp.en_essai <=> TimeDue(row)

\* every line of /list is under "En essai" exactly when trial_end > now, as
\* /check would label it, and under "Terminé" exactly when the record meets the
\* time condition of the due queries
C21_List ==
    (resp.cmd = "list" /\ resp.out = "List") =>
        \A i \in 1..Len(resp.lines) :
            LET row == LineRow(resp.g, resp.lines[i])
            IN /\ resp.lines[i].en_essai <=> parse_iso(row.trial_end_utc) > now
               /\ resp.lines[i].en_essai = check_en_essai(row)
               /\ ~resp.lines[i].en_essai <=> TimeDue(row)

\* C21: the list display (_status_and_delta) and the point-check display
\* (check_member) both label a record Trialing exactly when trial_end > now and
\* Completed otherwise; the two agree, and a record is shown Completed exactly
\* when it meets the time condition of fetch_due (trial_end <= now).
C21_SameLabel == C21_Check /\ C21_List

\* /check has answered at the very instant the trial ends
C21_Witness ==
    /\ resp.cmd = "check" /\ resp.out = "Status"
    /\ parse_iso(players[<<resp.g, resp.key>>].trial_end_utc) = now
    /\ ~resp.en_essai


----------------------------------------------------------------------------
(* C22 *)

\* the parts of unit u in a result
PartsOf(out, u) == {i \in 1..Len(out) : out[i].unit = u}

\* C22: for every duration, positive or negative, humanize_timedelta returns a
\* non-empty string that has a day part iff days > 0, an hour part iff
\* hours > 0 and a minute part iff minutes > 0 and days = 0; it returns "0m"
\* when no part applies, and the same string for a duration and its negation.
C22_Humanized ==
    resp.cmd = "humanize_timedelta" =>
        LET out == resp.out
            seconds == abs(resp.delta) \div TicksPerSecond
            days == seconds \div SecondsPerDay
            hours == (seconds % SecondsPerDay) \div 3600
            minutes == (seconds % 3600) \div 60
            none == days = 0 /\ hours = 0 /\ minutes = 0
        IN /\ out # <<>>
           /\ PartsOf(out, "j") # {} <=> days > 0
           /\ PartsOf(out, "h") # {} <=> hours > 0
           /\ ~none => (PartsOf(out, "m") # {} <=> (minutes > 0 /\ days = 0))
           /\ none <=> out = <<part(0, "m")>>
           /\ \A i \in 1..Len(out) :
                 out[i].n = (CASE out[i].unit = "j" -> days
                               [] out[i].unit = "h" -> hours
                               [] out[i].unit = "m" -> minutes)
           /\ out = humanize_timedelta(-resp.delta)

\* a negative duration of a day, an hour, a minute and more: minutes left out
C22_Witness ==
    /\ resp.cmd = "humanize_timedelta"
    /\ resp.delta < 0
    /\ resp.out = <<part(1, "j"), part(1, "h")>>
    /\ (abs(resp.delta) \div TicksPerSecond) % 3600 >= 60


----------------------------------------------------------------------------
(* C23 *)

\* the loop, once started, is never ended by a step of the sweep
C23_LoopKeepsRunning == pc # "stopped" => pc' # "stopped"

\* after the visit of a guild, however it ended, the pass visits the next one
C23_NextGuildVisited ==
    (pc = "next" /\ Tail(todo) # <<>>) =>
        /\ todo' = Tail(todo)
        /\ iter'.g = Head(Tail(todo))
        /\ pc' \in {"fetch", "next"}

\* a pass that starts begins with the first guild and has every guild to visit
C23_PassStarts ==
    (pc = "idle" /\ pc' # "idle") => todo' = bot_guilds /\ iter'.g = Head(bot_guilds)

\* C23: a store fault raised at any step of one community's sweep iteration,
\* the channel lookup (get_trial_channel_id) before the due-record processing
\* included, is contained to that community: the same pass still processes
\* every subsequent community and the sweep loop keeps running.
C23_FaultContained ==
    [][C23_LoopKeepsRunning /\ C23_NextGuildVisited /\ C23_PassStarts]_vars


----------------------------------------------------------------------------
(* C24 *)

\* a step in which a store operation or a send of the sweep fails, or the
\* configured channel does not resolve or does not permit sending
Failing ==
    \/ pc # "stopped" /\ pc' = "stopped"
    \/ iter' # iter /\ iter'.failed \in {"store", "send"}
    \/ iter' # iter /\ iter'.failed = "skip" /\ get_trial_channel_id(iter'.g) # 0

\* the linked record under k is due and its guild has a channel
WaitingLinked(k) ==
    /\ players[k] # NoRow
    /\ is_due(players[k], isoformat(now))
    /\ get_trial_channel_id(k[1]) # 0

WaitingNamed(k) ==
    /\ players_external[k] # NoRow
    /\ is_due(players_external[k], isoformat(now))
    /\ get_trial_channel_id(k[1]) # 0

\* the record under k has been sent its reminder and is marked
ServedLinked(k) == players[k] # NoRow /\ players[k].notified_done = 1 /\ sent.member[k] > 0
ServedNamed(k) ==
    players_external[k] # NoRow /\ players_external[k].notified_done = 1 /\ sent.name[k] > 0

\* C24: if a trial record is never removed, its community has a configured,
\* resolvable, send-permitted channel, and sends and store operations
\* eventually stop failing, then once trial_end <= now the record is eventually
\* sent a reminder and marked notified, under weak fairness of the sweep; a
\* record that became due while no channel was configured is notified after a
\* channel is set.
C24_EventuallyNotified ==
    <>[][~Failing]_vars =>
        /\ \A k \in LinkedKeys : WaitingLinked(k) ~> ServedLinked(k)
        /\ \A k \in NamedKeys : WaitingNamed(k) ~> ServedNamed(k)


----------------------------------------------------------------------------
(* C25 *)

\* the suspended add c resumes at its INSERT while a row stands under its key:
\* another add for the same key inserted after c's existence check
LostRace(c) ==
    /\ inflight[c] # NoCmd /\ inflight'[c] = NoCmd
    /\ IF inflight[c].kind = "member"
       THEN player_exists(inflight[c].g, inflight[c].key)
       ELSE external_exists(inflight[c].g, inflight[c].key)

\* the step raised a fault of the store, not the duplicate
StoreFault == resp'.out = "Raised" /\ "error" \notin DOMAIN resp'

\* C25: when two adds for the same key in the same community interleave at
\* their awaits (both existence checks run before either insert), the store
\* ends with one record for the key, that record keeps the added_at of the
\* insert that succeeded, and the losing add returns the already-exists outcome
\* instead of raising.
C25_LoserRejected ==
    [][\A c \in Cmds :
          LostRace(c) =>
              /\ players' = players
              /\ players_external' = players_external
              /\ resp'.out = "AlreadyExists" \/ StoreFault]_vars


----------------------------------------------------------------------------
(* C26 *)

\* the step is the visit of a guild that the pass skips
Skipped == iter' # iter /\ iter'.failed = "skip"

\* a skipped visit sends nothing, changes no trial record and leaves the
\* guild's due records due
C26_SkipChangesNothing ==
    Skipped =>
        /\ UNCHANGED <<players, players_external, sent>>
        /\ pc' = "next" /\ due' = <<>>
        /\ \A g \in Guilds :
              g = iter'.g =>
                  /\ fetch_due_trials(g)' = fetch_due_trials(g)
                  /\ fetch_due_trials_external(g)' = fetch_due_trials_external(g)

\* the visit of a guild without a channel on record is a skipped visit
C26_UnsetSkipped ==
    (pc \in {"idle", "next"} /\ iter' # iter /\ iter'.g # 0
        /\ get_trial_channel_id(iter'.g) = 0) => Skipped

\* the pass fetches, sends and marks only for a guild with a channel on record
C26_Processing ==
    pc \in {"fetch", "send", "mark", "fetch_ext", "send_ext", "mark_ext"}
        => get_trial_channel_id(iter.g) # 0 /\ iter.failed = "none"

\* C26: in a sweep pass, for a community whose ChannelConfig is unset, whose
\* channel cannot be resolved, or in whose channel the bot lacks send
\* permission, no message is sent and no trial record is changed; the
\* community's due records stay due.
C26_SkippedGuildUntouched ==
    []C26_Processing /\ [][C26_SkipChangesNothing /\ C26_UnsetSkipped]_vars

\* a guild with a due record has just been skipped for want of a channel
C26_Witness ==
    /\ pc = "next" /\ iter.failed = "skip"
    /\ get_trial_channel_id(iter.g) = 0
    /\ fetch_due_trials(iter.g) # {}
    /\ fetch_due_trials_external(iter.g) # {}


----------------------------------------------------------------------------
(* C27 *)

\* the loop is inside a pass
InPass == pc \notin {"idle", "stopped"}

\* the loop comes to rest only from a pass that visited its last guild, or
\* because on_ready started a loop that was not running
C27_PassCompletes ==
    (pc # "idle" /\ pc' = "idle") => (pc = "stopped" \/ (pc = "next" /\ Tail(todo) = <<>>))

\* while a pass is in progress no pass starts: the guilds left to visit stay
\* or lose their first
C27_NoSecondPass ==
    (InPass /\ pc' # "stopped") =>
        \/ todo' = todo /\ iter'.g = iter.g
        \/ todo' = Tail(todo) /\ pc = "next"
        \/ pc' = "idle"

\* a pass starts only from the resting loop, and a stopped loop only starts
C27_StartsFromRest ==
    /\ (~InPass /\ pc' \notin {"idle", "stopped"}) => (pc = "idle" /\ todo' = bot_guilds)
    /\ pc = "stopped" => pc' \in {"stopped", "idle"}

\* C27: at most one sweep pass is in progress at any time: pass N completes or
\* errors before pass N+1 starts, and repeated on_ready events (reconnects)
\* never start a second sweep loop.
C27_OnePassAtATime ==
    [][C27_PassCompletes /\ C27_NoSecondPass /\ C27_StartsFromRest]_vars

\* a pass is at a send for the second guild of two, where on_ready may fire
C27_Witness ==
    /\ pc = "send"
    /\ Len(bot_guilds) = 2
    /\ todo = Tail(bot_guilds)
    /\ iter.g = bot_guilds[2]


----------------------------------------------------------------------------
(* C28 *)

\* q comes before r in the order ascending added_at, then by kind
Before(q, r) ==
    \/ parse_iso(q.added_at_utc) < parse_iso(r.added_at_utc)
    \/ /\ parse_iso(q.added_at_utc) = parse_iso(r.added_at_utc)
       /\ q.kind = "member" /\ r.kind = "name"

\* the record whose reminder the step sends
Sending ==
    IF pc = "send" THEN item("member", Head(due).user_id, Head(due))
    ELSE item("name", normalize_name(Head(due).name), Head(due))

\* C28: within one sweep pass the due records of one community are sent and
\* marked in a deterministic order, ascending added_at, then by kind: the
\* record a reminder is sent for comes before none of the records the visit of
\* the guild has already sent one for.
C28_AscendingAddedAt ==
    [][(pc \in {"send", "send_ext"} /\ pc' \in {"mark", "mark_ext"}) =>
          \A q \in iter.told : ~Before(Sending, q)]_vars


----------------------------------------------------------------------------
(* Two communities side by side *)

\* two guilds with one member, a named player and one channel each
Tenants == [guilds |-> <<1, 2>>, members |-> {1}, channels |-> {1}, clock |-> {0, TrialTicks}]

\* the name the Leads of both guilds type for their named player
TenantName == <<"A", " ", " ", "b">>

\* the records both guilds entered at second 0: the same member or a named
\* player under the same name
Entered ==
    { [member |-> new_player_row(0), name |-> NoRow],
      [member |-> NoRow, name |-> new_external_row(TenantName, 0)] }

\* one trial length after the two guilds entered their player: nothing else has
\* happened, and trial_checker has not been started
InitTenants ==
    /\ now = TrialTicks
    /\ world = Tenants
    /\ schema = Columns
    /\ \E e \in Entered :
          /\ players = [k \in Guilds \X Users |-> IF k[2] = 1 THEN e.member ELSE NoRow]
          /\ players_external =
                [k \in Guilds \X StoredKeys |->
                    IF k[2] = normalize_name(TenantName) THEN e.name ELSE NoRow]
    /\ guild_settings = [g \in Guilds |-> 0]
    /\ player_notes = [k \in Guilds \X Users |-> NoRow]
    /\ player_notes_external = [k \in Guilds \X NameKeys |-> NoRow]
    /\ inflight = [c \in Cmds |-> NoCmd]
    /\ resp = NoResp
    /\ pc = "stopped"
    /\ todo = <<>>
    /\ due = <<>>
    /\ sent = [member |-> [k \in Guilds \X Users |-> 0],
               name |-> [k \in Guilds \X StoredKeys |-> 0]]
    /\ iter = NoIter

\* the operations that are given guild g, with the store answering: the
\* commands, the notes forms and the calls of mark_notified
Operation(g) ==
    \/ \E u \in Users : enter_member(g, u, FALSE)
    \/ enter_name(g, TenantName, FALSE)
    \/ \E u \in Users : leave_member(g, u, FALSE)
    \/ \E u \in Users : call_mark_notified(g, u)
    \/ \E k \in NameKeys : call_mark_notified_external(g, k)
    \/ \E u \in Users, form \in Forms : PlayerNotesModal_on_submit(g, u, form, FALSE)
    \/ \E u \in Users : OptionalNotesModal_on_submit(g, u, "y", "y", FALSE)
    \/ \E form \in Forms : PlayerNotesModalExternal_on_submit(g, TenantName, form, FALSE)
    \/ OptionalNotesModalExternal_on_submit(g, TenantName, "y", "y", FALSE)
    \/ \E u \in Users : delnotes_member(g, u, FALSE)
    \/ delnotes_name(g, TenantName, FALSE)
    \/ \E ch \in Channels : set_trial_channel_cmd(g, ch, FALSE)

\* the operations of either guild, on_ready, and the sweep where the channel
\* is usable, the store answers and the sends succeed
NextTenants ==
    \/ \E g \in Guilds : Operation(g)
    \/ on_ready
    \/ sweep_start(FALSE, TRUE, TRUE)
    \/ sweep_fetch(FALSE)
    \/ sweep_send(TRUE)
    \/ sweep_mark(FALSE)
    \/ sweep_fetch_ext(FALSE)
    \/ sweep_send_ext(TRUE)
    \/ sweep_mark_ext(FALSE)
    \/ sweep_next(FALSE, TRUE, TRUE)

\* two guilds two weeks after each entered a player
SpecTenants == InitTenants /\ [][NextTenants]_vars


----------------------------------------------------------------------------
(* A store from an older version *)

\* a row of table players written before the notified columns existed
legacy_row(now_utc, notes_text) ==
    [added_at_utc |-> isoformat(now_utc),
     trial_end_utc |-> isoformat(trial_end_of(now_utc)),
     notes |-> notes_text]

LegacyRows == {legacy_row(0, n) : n \in {"", "n"}}

\* the bot starts over a store whose table players has the legacy columns
\* and, for each guild, no row or one legacy row of member 1
InitLegacy ==
    /\ now = 0
    /\ world = Ledger
    /\ schema = LegacyColumns
    /\ \E old \in [Guilds -> LegacyRows \cup {NoRow}] :
          players = [k \in Guilds \X Users |-> IF k[2] = 1 THEN old[k[1]] ELSE NoRow]
    /\ players_external = [k \in Guilds \X StoredKeys |-> NoRow]
    /\ guild_settings = [g \in Guilds |-> 0]
    /\ player_notes = [k \in Guilds \X Users |-> NoRow]
    /\ player_notes_external = [k \in Guilds \X NameKeys |-> NoRow]
    /\ inflight = [c \in Cmds |-> NoCmd]
    /\ resp = NoResp
    /\ pc = "stopped"
    /\ todo = <<>>
    /\ due = <<>>
    /\ sent = [member |-> [k \in Guilds \X Users |-> 0],
               name |-> [k \in Guilds \X StoredKeys |-> 0]]
    /\ iter = NoIter

\* on_ready at the start and at every reconnect, the clock, and, once the
\* store has its columns, the adds, removals and marks of the linked family
NextLegacy ==
    \/ on_ready
    \/ Tick
    \/ schema = Columns /\ \E g \in Guilds, u \in Users : enter_member(g, u, FALSE)
    \/ schema = Columns /\ \E g \in Guilds, u \in Users : leave_member(g, u, FALSE)
    \/ schema = Columns /\ \E g \in Guilds, u \in Users : call_mark_notified(g, u)

SpecLegacy == InitLegacy /\ [][NextLegacy]_vars

----------------------------------------------------------------------------
(* A first start *)

\* the bot starts with no players.db: the file has no table until init_db
InitFresh ==
    /\ now = 0
    /\ world = Desk
    /\ schema = {}
    /\ players = [k \in Guilds \X Users |-> NoRow]
    /\ players_external = [k \in Guilds \X StoredKeys |-> NoRow]
    /\ guild_settings = [g \in Guilds |-> 0]
    /\ player_notes = [k \in Guilds \X Users |-> NoRow]
    /\ player_notes_external = [k \in Guilds \X NameKeys |-> NoRow]
    /\ inflight = [c \in Cmds |-> NoCmd]
    /\ resp = NoResp
    /\ pc = "stopped"
    /\ todo = <<>>
    /\ due = <<>>
    /\ sent = [member |-> [k \in Guilds \X Users |-> 0],
               name |-> [k \in Guilds \X StoredKeys |-> 0]]
    /\ iter = NoIter

\* a statement on a table that does not exist raises sqlite3.OperationalError
store_raises(fault) == schema = {} => fault

\* the commands are registered when the module is loaded and synced in
\* setup_hook, before the gateway connects: an interaction is handled whenever
\* it arrives, on_ready runs when the gateway reports ready
NextFresh ==
    \/ Tick
    \/ on_ready
    \/ \E g \in Guilds, u \in Users, fault \in BOOLEAN :
          store_raises(fault) /\ enter_member(g, u, fault)
    \/ \E g \in Guilds, name \in DisplayNames, fault \in BOOLEAN :
          store_raises(fault) /\ enter_name(g, name, fault)
    \/ \E g \in Guilds, u \in Users, fault \in BOOLEAN :
          store_raises(fault) /\ leave_member(g, u, fault)
    \/ \E g \in Guilds, ch \in Channels, fault \in BOOLEAN :
          store_raises(fault) /\ set_trial_channel_cmd(g, ch, fault)
    \/ Sweep

SpecFresh == InitFresh /\ [][NextFresh]_vars

----------------------------------------------------------------------------
(* The two families called side by side *)

\* the name key that stands for each account id
key_of == [u \in {1} |-> normalize_name(TenantName)]

\* add_player_to_db(guild_id, user_id) and add_player_by_name(guild_id, name),
\* one after the other, for an account and a name of the key that stands for it
twin_add(g, u, name) ==
    /\ AtAwait
    /\ g \in InGuilds /\ u \in world.members
    /\ LET norm == normalize_name(name)
       IN /\ norm = key_of[u]
          /\ players' = IF player_exists(g, u) THEN players ELSE insert_player(g, u, now)
          /\ players_external' =
                IF norm = <<>> \/ external_exists(g, norm) THEN players_external
                ELSE insert_external(g, name, now)
          /\ resp' = [cmd |-> "add", g |-> g, out |-> "Returned",
                      linked |-> ~player_exists(g, u),
                      named |-> ~(norm = <<>> \/ external_exists(g, norm))]
    /\ UNCHANGED <<now, world, schema, notes, guild_settings, inflight, sweep, sent>>

\* fetch_due_trials(guild_id) and fetch_due_trials_external(guild_id): the rows
\* returned, each under the key it stands for
twin_fetch_due(g) ==
    /\ AtAwait
    /\ g \in InGuilds
    /\ resp' = [cmd |-> "fetch_due", g |-> g, out |-> "Returned",
                linked |-> {[key |-> key_of[u],
                             added_at_utc |-> due_row(g, u).added_at_utc,
                             trial_end_utc |-> due_row(g, u).trial_end_utc] :
                            u \in fetch_due_trials(g)},
                named |-> {[key |-> normalize_name(due_row_ext(g, k).name),
                            added_at_utc |-> due_row_ext(g, k).added_at_utc,
                            trial_end_utc |-> due_row_ext(g, k).trial_end_utc] :
                           k \in fetch_due_trials_external(g)}]
    /\ UNCHANGED <<now, world, schema, notes, store, inflight, sweep, sent>>

\* mark_notified(guild_id, user_id) and mark_notified_external(guild_id,
\* name_key) on the key that stands for the account; both return None
twin_mark_notified(g, u) ==
    /\ AtAwait
    /\ g \in InGuilds /\ u \in world.members
    /\ players' = mark_notified(g, u)
    /\ players_external' = mark_notified_external(g, key_of[u])
    /\ resp' = [cmd |-> "mark_notified", g |-> g, out |-> "Returned",
                linked |-> "None", named |-> "None"]
    /\ UNCHANGED <<now, world, schema, notes, guild_settings, inflight, sweep, sent>>

NextTwin ==
    \/ Tick
    \/ \E g \in Guilds, u \in Users, name \in DisplayNames : twin_add(g, u, name)
    \/ \E g \in Guilds : twin_fetch_due(g)
    \/ \E g \in Guilds, u \in Users : twin_mark_notified(g, u)

\* two guilds; every add, fetch of the due rows and mark is made on both
\* families, and the clock moves between the calls
SpecTwin == InitStore /\ [][NextTwin]_vars

----------------------------------------------------------------------------
(* C29 *)

\* the trial, notes and config records of guild b
RecordsOf(b) ==
    [players |-> [u \in Users |-> players[<<b, u>>]],
     players_external |-> [k \in StoredKeys |-> players_external[<<b, k>>]],
     guild_settings |-> guild_settings[b],
     player_notes |-> [u \in Users |-> player_notes[<<b, u>>]],
     player_notes_external |-> [k \in NameKeys |-> player_notes_external[<<b, k>>]]]

\* a step of the sweep's visit of guild a: its fetches, sends and marks
VisitOf(a) ==
    /\ pc \in {"fetch", "send", "mark", "fetch_ext", "send_ext", "mark_ext"}
    /\ Head(todo) = a
    /\ Sweep

\* C29: every operation scoped to community A (add, remove, mark_notified,
\* notes upsert, optional-notes update, notes delete, set channel, and the
\* sweep iteration for A) leaves all trial, notes and config records of every
\* other community B unchanged; the same account id or name key in two
\* communities denotes two independent records.
C29_OtherGuildsUnchanged ==
    [][\/ UNCHANGED <<store, notes>>
       \/ \A a \in Guilds : \A b \in Guilds \ {a} :
             RecordsOf(b)' = RecordsOf(b) \/ ~(Operation(a) \/ VisitOf(a))]_vars

\* guild 1 has removed the member whose record, notes and reminder channel
\* guild 2 still holds under the same account id
C29_Witness ==
    /\ resp.cmd = "leave" /\ resp.out = "Removed" /\ resp.g = 1 /\ resp.key = 1
    /\ players[<<1, 1>>] = NoRow
    /\ players[<<2, 1>>] # NoRow
    /\ player_notes[<<2, 1>>] # NoRow
    /\ guild_settings[2] # 0


----------------------------------------------------------------------------
(* C30 *)

\* the record state the two families have in common
RecordState(row) ==
    IF row = NoRow THEN NoRow
    ELSE [added_at_utc |-> row.added_at_utc, trial_end_utc |-> row.trial_end_utc,
          notified_done |-> row.notified_done, notified_at_utc |-> row.notified_at_utc]

\* C30: for any sequence of add, fetch_due and mark_notified operations and
\* clock advances, the named-trial family keyed by name_key yields the same
\* outcomes and the same record states (added_at, trial_end, notified) as the
\* linked-trial family keyed by account_id run on the corresponding keys.
C30_SameOutcomesAndStates ==
    /\ \A g \in Guilds : \A u \in DOMAIN key_of :
          RecordState(players_external[<<g, key_of[u]>>]) = RecordState(players[<<g, u>>])
    /\ resp.out = "Returned" => resp.named = resp.linked

\* both families have just returned the record that came due in guild 1 while
\* guild 2 holds a record that both have marked
C30_Witness ==
    /\ resp.cmd = "fetch_due" /\ resp.g = 1
    /\ resp.named # {} /\ resp.linked # {}
    /\ players_external[<<2, key_of[1]>>] # NoRow
    /\ players_external[<<2, key_of[1]>>].notified_done = 1
    /\ players[<<2, 1>>].notified_done = 1


----------------------------------------------------------------------------
(* C31 *)

\* the columns of a row other than the two notified columns
Kept(row) == [c \in DOMAIN row \ {"notified_done", "notified_at_utc"} |-> row[c]]

\* C31: after init_db runs on a store whose linked-trial table lacks the
\* notified / notified_at columns, both columns exist, every pre-existing row
\* is kept with notified=false and notified_at=null, and running init_db again
\* (for example on a later on_ready) changes no row.
C31_InitDbMigrates ==
    [][on_ready =>
         /\ {"notified_done", "notified_at_utc"} \subseteq schema'
         /\ \A k \in Guilds \X Users :
               IF players[k] = NoRow THEN players'[k] = NoRow
               ELSE /\ players'[k] # NoRow
                    /\ Kept(players'[k]) = Kept(players[k])
                    /\ {"notified_done", "notified_at_utc"} \subseteq DOMAIN players'[k]
         /\ schema = LegacyColumns =>
               \A k \in Guilds \X Users :
                  players'[k] # NoRow =>
                     players'[k].notified_done = 0 /\ players'[k].notified_at_utc = NULL
         /\ {"notified_done", "notified_at_utc"} \subseteq schema => players' = players]_vars

\* the row guild 1 held under the legacy columns is there after init_db, not
\* notified, next to a row of guild 2 that was marked after the migration
C31_Witness ==
    /\ schema = Columns /\ pc = "idle"
    /\ players[<<1, 1>>] # NoRow /\ players[<<1, 1>>].notes = "n"
    /\ players[<<1, 1>>].notified_done = 0 /\ players[<<1, 1>>].notified_at_utc = NULL
    /\ players[<<2, 1>>] # NoRow /\ players[<<2, 1>>].notes = "n"
    /\ players[<<2, 1>>].notified_done = 1


----------------------------------------------------------------------------
(* C32 *)

\* the step is a command that went to the store: it answered or raised
CommandAtStore == resp'.cmd # "none" /\ resp'.out # "Denied"

\* the step is one of trial_checker
SweepStep == pc # "stopped" /\ Sweep

\* the sweep half of C32: the loop runs only after an init_db
C32_SweepAfterInitDb == pc # "stopped" => schema # {}

\* C32: no sweep pass and no command issues a store operation before init_db
\* has completed: on_ready awaits init_db and only then starts the sweep loop.
C32_NothingBeforeInitDb ==
    [][(CommandAtStore \/ SweepStep) => schema # {}]_vars


----------------------------------------------------------------------------
(* C33 *)

\* every stored named record sits under the key of its display name
C33_KeyOfName ==
    \A key \in Guilds \X StoredKeys :
       players_external[key] # NoRow =>
          /\ players_external[key].name_key = key[2]
          /\ normalize_name(players_external[key].name) = key[2]
          /\ normalize_name(key[2]) = key[2]

\* the sweep's mark of a named record went through
MarkedNamed == pc = "mark_ext" /\ pc' \in {"next", "send_ext"} /\ due' = Tail(due)

\* the stored record of the visited guild that the row just sent was read from
SentFrom(key) ==
    /\ key[1] = Head(todo)
    /\ players_external[key] # NoRow
    /\ players_external[key].name = Head(due).name

C33_MarksTheSent ==
    MarkedNamed =>
       /\ \E key \in Guilds \X StoredKeys : SentFrom(key)
       /\ \A key \in Guilds \X StoredKeys :
             IF SentFrom(key)
             THEN players_external'[key] = notified_row(players_external[key])
             ELSE players_external'[key] = players_external[key]

\* C33: every stored NamedTrial satisfies _normalize_name(name) = name_key
\* (normalization is idempotent and unaffected by stripping the display name),
\* so in the sweep mark_notified_external(_normalize_name(name)) marks exactly
\* the record whose reminder was just sent and no other record.
C33_MarkByNormalizedName == []C33_KeyOfName /\ [][C33_MarksTheSent]_vars

\* the visit of the first guild has marked its named record, whose display
\* name is not its key, and the other guild's record under the same key is
\* still unmarked
C33_Witness ==
    /\ pc = "next" /\ iter.failed = "none"
    /\ \E k \in NameKeys :
          /\ players_external[<<iter.g, k>>] # NoRow
          /\ players_external[<<iter.g, k>>].name # k
          /\ players_external[<<iter.g, k>>].notified_done = 1
          /\ \E h \in Guilds \ {iter.g} :
                /\ players_external[<<h, k>>] # NoRow
                /\ players_external[<<h, k>>].notified_done = 0


----------------------------------------------------------------------------
(* C34 *)

\* the sweep is about to mark a linked record that has been removed since the
\* fetch and not added again
Gone == pc = "mark" /\ players[<<Head(todo), Head(due).user_id>>] = NoRow

\* the mark of a removed record raises nothing: it can go through
C34_NoError == Gone => ENABLED sweep_mark(FALSE)

\* the mark of a removed record changes no row and the batch goes on
C34_MarkOfGone ==
    Gone /\ due' = Tail(due) =>
       /\ players' = players
       /\ players_external' = players_external
       /\ pc' = IF Tail(due) = <<>> THEN "fetch_ext" ELSE "send"
       /\ iter' = iter

\* a visit that no failure ended, and during which a fetched linked record
\* was removed, has sent every fetched record and marked those still there
C34_RestServed ==
    /\ pc = "next" /\ iter.failed = "none"
    /\ \E it \in iter.fetched : it.kind = "member" /\ players[<<iter.g, it.key>>] = NoRow
    => \A it \in iter.fetched :
          /\ it \in iter.told
          /\ Current(iter.g, it) => Record(iter.g, it).notified_done = 1

\* C34: if a linked record is removed, and not re-added, after fetch_due
\* returned it and before mark_notified runs for it, mark_notified changes
\* nothing: no row is created, no error is raised, and the remaining due
\* records of the batch are still sent and marked.
C34_RemovedBeforeMark == [](C34_NoError /\ C34_RestServed) /\ [][C34_MarkOfGone]_vars

\* the visit has ended without a failure: of the two linked records it
\* fetched, one was removed during the visit and the other is marked
C34_Witness ==
    /\ pc = "next" /\ iter.failed = "none"
    /\ \E a, b \in iter.fetched :
          /\ a.kind = "member" /\ b.kind = "member" /\ a # b
          /\ players[<<iter.g, a.key>>] = NoRow
          /\ Current(iter.g, b) /\ Record(iter.g, b).notified_done = 1

====
